---- MODULE Spec2Model ----
(***************************************************************************)
(* Model of the translation checker plugin: the run-scoped navigation      *)
(* tracker (commands.js: enableAutoTranslationCheck), the process-wide     *)
(* result store (cypress.config.js tasks) and the validation suite         *)
(* (commands.js: createTranslationValidationTests).                        *)
(*                                                                         *)
(* A run is a sequence of spec files; each holds tests; each test is       *)
(* beforeEach -> body -> afterEach.  The afterEach hook enqueues Cypress   *)
(* commands, which run one at a time after the hook's function returned;   *)
(* url:changed events may arrive between any two of them.  The validation  *)
(* suite lives in the spec file that sorts last.                           *)
(***************************************************************************)
EXTENDS Integers, Sequences, FiniteSets, TLC

\* ------------------------------------------------------------------ bounds

\* destinations a url:changed event may carry
URLs == {"/a", "/b"}

\* tests run in one run
MaxTests == 2

\* url:changed events observed between two consecutive test starts
MaxNavs == 3

\* functional spec files of one run (the validation file comes after them)
MaxSpecs == 2

\* ---------------------------------------------------------------- helpers

Null == "null"

Range(s) == {s[i] : i \in DOMAIN s}

\* number of entries of s that satisfy Test
Count(s, Test(_)) == Cardinality({i \in DOMAIN s : Test(s[i])})

\* { ...a, ...b }: b's properties replace a's of the same name
Spread(a, b) ==
  [k \in DOMAIN a \cup DOMAIN b |-> IF k \in DOMAIN b THEN b[k] ELSE a[k]]

\* ---------------------------------------------------------------- strings

\* A JavaScript string is the sequence of its characters.
WhiteSpace == {" ", "\n", "\t"}
LineTerminators == {"\n"}

RECURSIVE trimStart(_)
trimStart(s) ==
  IF s # << >> /\ Head(s) \in WhiteSpace THEN trimStart(Tail(s)) ELSE s

RECURSIVE trimEnd(_)
trimEnd(s) ==
  IF s # << >> /\ s[Len(s)] \in WhiteSpace
    THEN trimEnd(SubSeq(s, 1, Len(s) - 1))
    ELSE s

\* String.prototype.trim
trim(s) == trimEnd(trimStart(s))

\* String.prototype.includes
includes(s, t) ==
  \E i \in 1..(Len(s) - Len(t) + 1) : SubSeq(s, i, i + Len(t) - 1) = t

LowerCase ==
  <<"a", "b", "c", "d", "e", "f", "g", "h", "i", "j", "k", "l", "m",
    "n", "o", "p", "q", "r", "s", "t", "u", "v", "w", "x", "y", "z">>
UpperCase ==
  <<"A", "B", "C", "D", "E", "F", "G", "H", "I", "J", "K", "L", "M",
    "N", "O", "P", "Q", "R", "S", "T", "U", "V", "W", "X", "Y", "Z">>

UpperOf == [c \in Range(LowerCase) |->
              UpperCase[CHOOSE k \in 1..26 : LowerCase[k] = c]]
LowerOf == [c \in Range(UpperCase) |->
              LowerCase[CHOOSE k \in 1..26 : UpperCase[k] = c]]

\* String.prototype.toUpperCase / toLowerCase
toUpperCase(s) ==
  [i \in DOMAIN s |-> IF s[i] \in DOMAIN UpperOf THEN UpperOf[s[i]] ELSE s[i]]
toLowerCase(s) ==
  [i \in DOMAIN s |-> IF s[i] \in DOMAIN LowerOf THEN LowerOf[s[i]] ELSE s[i]]

Digits == <<"0", "1", "2", "3", "4", "5", "6", "7", "8", "9">>

\* String(n) of a natural number
RECURSIVE NumberToString(_)
NumberToString(n) ==
  IF n < 10 THEN <<Digits[n + 1]>>
            ELSE Append(NumberToString(n \div 10), Digits[(n % 10) + 1])

\* Array.prototype.join
RECURSIVE join(_, _)
join(parts, sep) ==
  IF parts = << >> THEN << >>
  ELSE IF Len(parts) = 1 THEN parts[1]
  ELSE parts[1] \o sep \o join(Tail(parts), sep)

\* ---------------------------------------------------- regular expressions

\* A regular expression is its syntax tree.  Every pattern of the repository
\* is written without the g and y flags, so test() keeps no lastIndex and is
\* a search from any start position.
Chr(c) == [op |-> "char", set |-> {c}]
OneOf(cs) == [op |-> "char", set |-> cs]
Dot == [op |-> "dot"]
Bol == [op |-> "bol"]
Star(r) == [op |-> "star", r |-> r]
Plus(r) == [op |-> "plus", r |-> r]
Cat(rs) == [op |-> "seq", rs |-> rs]

RECURSIVE Match(_, _, _)
RECURSIVE MatchSeq(_, _, _)
RECURSIVE MatchStar(_, _, _)

\* the positions at which a match of r that starts at a position of I ends
\* (position i is in front of s[i]; Len(s) + 1 is the end of s)
Match(r, s, I) ==
  CASE r.op = "char" ->
         {i + 1 : i \in {j \in I : j <= Len(s) /\ s[j] \in r.set}}
    [] r.op = "dot" ->
         {i + 1 : i \in {j \in I : j <= Len(s) /\ s[j] \notin LineTerminators}}
    [] r.op = "bol" -> I \cap {1}
    [] r.op = "seq" -> MatchSeq(r.rs, s, I)
    [] r.op = "star" -> MatchStar(r.r, s, I)
    [] r.op = "plus" -> MatchStar(r.r, s, Match(r.r, s, I))

MatchSeq(rs, s, I) ==
  IF rs = << >> THEN I ELSE MatchSeq(Tail(rs), s, Match(Head(rs), s, I))

MatchStar(r, s, I) ==
  LET J == I \cup Match(r, s, I)
  IN IF J = I THEN I ELSE MatchStar(r, s, J)

\* RegExp.prototype.test, anchored at both ends in place of the search
RegExpTestWhole(r, s) == (Len(s) + 1) \in Match(r, s, {1})

\* RegExp.prototype.test
RegExpTest(r, s) == Match(r, s, 1..(Len(s) + 1)) # {}

\* A pattern of config.patterns: a RegExp object or a string.
RegExp(source, ast) == [isRegExp |-> TRUE, source |-> source, ast |-> ast]
Literal(str) == [isRegExp |-> FALSE, str |-> str]

UpperOrUnderscore == Range(UpperCase) \cup {"_"}

\* /\{\{.*?\}\}/
Mustache ==
  RegExp("\\{\\{.*?\\}\\}",
         Cat(<<Chr("{"), Chr("{"), Star(Dot), Chr("}"), Chr("}")>>))
\* /\[\[.*?\]\]/
Brackets ==
  RegExp("\\[\\[.*?\\]\\]",
         Cat(<<Chr("["), Chr("["), Star(Dot), Chr("]"), Chr("]")>>))
\* /i18n\./
I18nPrefix ==
  RegExp("i18n\\.",
         Cat(<<Chr("i"), Chr("1"), Chr("8"), Chr("n"), Chr(".")>>))
\* /^[A-Z_]+\.[A-Z_]+/
ConstantKey ==
  RegExp("^[A-Z_]+\\.[A-Z_]+",
         Cat(<<Bol, Plus(OneOf(UpperOrUnderscore)), Chr("."),
               Plus(OneOf(UpperOrUnderscore))>>))
\* /\$t\(.*?\)/
VueCall ==
  RegExp("\\$t\\(.*?\\)",
         Cat(<<Chr("$"), Chr("t"), Chr("("), Star(Dot), Chr(")")>>))

\* -------------------------------------------------------------- selectors

\* The CSS selectors the configurations use: a type selector, an attribute
\* presence selector, a class selector.
TypeSel(name) == [by |-> "type", name |-> name]
AttrSel(name) == [by |-> "attr", name |-> name]
ClassSel(name) == [by |-> "class", name |-> name]

\* --------------------------------------------------------------------- DOM

\* A document is its node table in creation order: the parent of a node
\* precedes it and the children of a node are in document order.  Node 1 is
\* the html element, whose parent 0 is the Document node; body is the index
\* of the body element, 0 (null) when the document has none.
Element(parent, localName, attrs, classList) ==
  [nodeType |-> "element", parent |-> parent, localName |-> localName,
   attrs |-> attrs, classList |-> classList, data |-> << >>]
TextNode(parent, data) ==
  [nodeType |-> "text", parent |-> parent, localName |-> << >>,
   attrs |-> << >>, classList |-> {}, data |-> data]
Attr(name, value) == [name |-> name, value |-> value]

\* null, as the parentNode of a node that is in no tree
NoNode == -1

\* n && n.nodeType === Node.ELEMENT_NODE: false of the Document node (0) and
\* of null
isElement(doc, n) == n \in DOMAIN doc.nodes /\ doc.nodes[n].nodeType = "element"

\* Element.tagName and Node.nodeName of an element of an HTML document
tagName(doc, n) == toUpperCase(doc.nodes[n].localName)

hasAttribute(doc, n, name) ==
  \E i \in DOMAIN doc.nodes[n].attrs : doc.nodes[n].attrs[i].name = name

\* Element.getAttribute of an attribute that is present
getAttribute(doc, n, name) ==
  LET attrs == doc.nodes[n].attrs
  IN attrs[CHOOSE i \in DOMAIN attrs : attrs[i].name = name].value

\* Element.id: the id attribute, "" without one
elementId(doc, n) ==
  IF hasAttribute(doc, n, "id") THEN getAttribute(doc, n, "id") ELSE << >>

parentNode(doc, n) == doc.nodes[n].parent

parentElement(doc, n) ==
  IF isElement(doc, parentNode(doc, n)) THEN parentNode(doc, n) ELSE 0

\* Node.childNodes, the first child alone in place of the list
childNodesFirstOnly(doc, n) ==
  LET all == SelectSeq([i \in DOMAIN doc.nodes |-> i],
                       LAMBDA i : doc.nodes[i].parent = n)
  IN IF all = << >> THEN << >> ELSE <<all[1]>>

\* Node.childNodes
childNodes(doc, n) ==
  SelectSeq([i \in DOMAIN doc.nodes |-> i], LAMBDA i : doc.nodes[i].parent = n)

\* the nodes reached by following previousSibling from n
previousSiblings(doc, n) ==
  {i \in DOMAIN doc.nodes : /\ i < n
                            /\ doc.nodes[n].parent # NoNode
                            /\ doc.nodes[i].parent = doc.nodes[n].parent}

\* Element.matches
matches(doc, n, selector) ==
  CASE selector.by = "type" -> doc.nodes[n].localName = selector.name
    [] selector.by = "attr" -> hasAttribute(doc, n, selector.name)
    [] selector.by = "class" -> selector.name \in doc.nodes[n].classList

\* Element.closest: the nearest element of the chain n, parentElement, ...
\* that matches; 0 (null) when none does
RECURSIVE closest(_, _, _)
closest(doc, n, selector) ==
  IF n = 0 THEN 0
  ELSE IF matches(doc, n, selector) THEN n
  ELSE closest(doc, parentElement(doc, n), selector)

\* ----------------------------------------------------------------- options

\* the defaultConfig of index.js, failOnError: false in place of true
defaultConfigLenient ==
  [patterns |-> <<Mustache, Brackets, I18nPrefix, ConstantKey, VueCall>>,
   excludeSelectors |->
     <<TypeSel(<<"s", "c", "r", "i", "p", "t">>),
       TypeSel(<<"s", "t", "y", "l", "e">>),
       TypeSel(<<"n", "o", "s", "c", "r", "i", "p", "t">>),
       AttrSel("data-translation-ignore"),
       ClassSel("translation-ignore")>>,
   failOnError |-> FALSE,
   logErrors |-> TRUE,
   allowedKeys |-> << >>,
   checkAttributes |-> <<"placeholder", "title", "alt", "aria-label">>]

\* the defaultConfig of index.js
defaultConfig ==
  [patterns |-> <<Mustache, Brackets, I18nPrefix, ConstantKey, VueCall>>,
   excludeSelectors |->
     <<TypeSel(<<"s", "c", "r", "i", "p", "t">>),
       TypeSel(<<"s", "t", "y", "l", "e">>),
       TypeSel(<<"n", "o", "s", "c", "r", "i", "p", "t">>),
       AttrSel("data-translation-ignore"),
       ClassSel("translation-ignore")>>,
   failOnError |-> TRUE,
   logErrors |-> TRUE,
   allowedKeys |-> << >>,
   checkAttributes |-> <<"placeholder", "title", "alt", "aria-label">>]

\* the options a support file may pass to enableAutoTranslationCheck
GlobalOptionsSet ==
  { [logErrors |-> TRUE],
    [failOnError |-> TRUE, logErrors |-> TRUE] }

\* const config = { ...defaultConfig, ...options }, the lists of patterns
\* concatenated in place of the replacement
ConfigMerged(options) ==
  LET c == Spread(defaultConfig, options)
  IN IF "patterns" \in DOMAIN options
       THEN [c EXCEPT !.patterns = defaultConfig.patterns \o options.patterns]
       ELSE c

\* const config = { ...defaultConfig, ...options }, the selectors of the
\* caller added to the default ones in place of the replacement
ConfigExclusionsAdded(options) ==
  LET c == Spread(defaultConfig, options)
  IN IF "excludeSelectors" \in DOMAIN options
       THEN [c EXCEPT !.excludeSelectors =
               defaultConfig.excludeSelectors \o options.excludeSelectors]
       ELSE c

\* const config = { ...defaultConfig, ...options }
Config(options) == Spread(defaultConfig, options)

\* ----------------------------------------------------------------- Scanner

\* hasTranslationIssue(text), without the look at config.allowedKeys
hasTranslationIssueNoAllow(config, text) ==
  IF text = << >> \/ trim(text) = << >> THEN FALSE
  ELSE \E k \in DOMAIN config.patterns :
         IF config.patterns[k].isRegExp
           THEN RegExpTest(config.patterns[k].ast, text)
           ELSE includes(text, config.patterns[k].str)

\* hasTranslationIssue(text), without the test for an empty or blank text
hasTranslationIssueNoBlank(config, text) ==
  IF \E k \in DOMAIN config.allowedKeys : includes(text, config.allowedKeys[k])
    THEN FALSE
  ELSE \E k \in DOMAIN config.patterns :
         IF config.patterns[k].isRegExp
           THEN RegExpTest(config.patterns[k].ast, text)
           ELSE includes(text, config.patterns[k].str)

\* hasTranslationIssue(text) under config
hasTranslationIssue(config, text) ==
  IF text = << >> \/ trim(text) = << >> THEN FALSE
  ELSE IF \E k \in DOMAIN config.allowedKeys :
            includes(text, config.allowedKeys[k])
    THEN FALSE
  ELSE \E k \in DOMAIN config.patterns :
         IF config.patterns[k].isRegExp
           THEN RegExpTest(config.patterns[k].ast, text)
           ELSE includes(text, config.patterns[k].str)

\* shouldExclude(element), nothing excluded
shouldExcludeNever(doc, config, n) == FALSE

\* shouldExclude(element), every written in place of some
shouldExcludeEvery(doc, config, n) ==
  \A k \in DOMAIN config.excludeSelectors :
    \/ matches(doc, n, config.excludeSelectors[k])
    \/ closest(doc, n, config.excludeSelectors[k]) # 0

\* shouldExclude(element)
shouldExclude(doc, config, n) ==
  \E k \in DOMAIN config.excludeSelectors :
    \/ matches(doc, n, config.excludeSelectors[k])
    \/ closest(doc, n, config.excludeSelectors[k]) # 0

\* the while loop of getXPath, index counting every element sibling before
\* current, whatever its nodeName
RECURSIVE xpathPartsAnyTag(_, _)
xpathPartsAnyTag(doc, current) ==
  IF ~isElement(doc, current) THEN << >>
  ELSE LET index == Cardinality({sibling \in previousSiblings(doc, current) :
                                   isElement(doc, sibling)})
           name == toLowerCase(tagName(doc, current))
           part == IF index > 0
                     THEN name \o <<"[">> \o NumberToString(index + 1) \o <<"]">>
                     ELSE name
       IN Append(xpathPartsAnyTag(doc, parentNode(doc, current)), part)

\* the while loop of getXPath: one part per element from current upwards,
\* each put in front of the parts collected before
RECURSIVE xpathParts(_, _)
xpathParts(doc, current) ==
  IF ~isElement(doc, current) THEN << >>
  ELSE LET index == Cardinality({sibling \in previousSiblings(doc, current) :
                                   /\ isElement(doc, sibling)
                                   /\ tagName(doc, sibling) = tagName(doc, current)})
           name == toLowerCase(tagName(doc, current))
           part == IF index > 0
                     THEN name \o <<"[">> \o NumberToString(index + 1) \o <<"]">>
                     ELSE name
       IN Append(xpathParts(doc, parentNode(doc, current)), part)

\* getXPath(element)
getXPath(doc, element) ==
  IF elementId(doc, element) # << >>
    THEN <<"/", "/", "*", "[", "@", "i", "d", "=", "\"">>
           \o elementId(doc, element) \o <<"\"", "]">>
    ELSE <<"/">> \o join(xpathParts(doc, element), <<"/">>)

\* the topmost node of the ancestor chain of n
RECURSIVE rootOf(_, _)
rootOf(doc, n) ==
  IF doc.nodes[n].parent \in DOMAIN doc.nodes
    THEN rootOf(doc, doc.nodes[n].parent)
    ELSE n

\* A call of getXPath(element), the loop written as
\* while (current.nodeType === Node.ELEMENT_NODE): it reads nodeType of null
\* above the topmost node of an element that is in no document
getXPathCallUnguarded(doc, element) ==
  IF element = NoNode \/ doc.nodes[rootOf(doc, element)].parent = NoNode
    THEN [threw |-> "TypeError", path |-> << >>]
    ELSE [threw |-> "none", path |-> getXPath(doc, element)]

\* A call of getXPath(element): it ends with the path, or with the
\* TypeError of reading element.id when element is null
getXPathCall(doc, element) ==
  IF element = NoNode
    THEN [threw |-> "TypeError", path |-> << >>]
    ELSE [threw |-> "none", path |-> getXPath(doc, element)]

RECURSIVE Flatten(_)
Flatten(ss) == IF ss = << >> THEN << >> ELSE Head(ss) \o Flatten(Tail(ss))

\* checkNode(node), the record of an attribute pushed without the name of
\* the attribute
RECURSIVE checkNodeUnnamed(_, _, _)
checkNodeUnnamed(doc, config, node) ==
  IF doc.nodes[node].nodeType = "text"
    THEN LET text == trim(doc.nodes[node].data)
             element == parentElement(doc, node)
         IN IF /\ text # << >>
               /\ hasTranslationIssue(config, text)
               /\ element # 0
               /\ ~shouldExclude(doc, config, element)
              THEN <<[type |-> "text", text |-> text,
                      element |-> tagName(doc, element),
                      xpath |-> getXPath(doc, element)]>>
              ELSE << >>
  ELSE IF doc.nodes[node].nodeType = "element"
    THEN LET attrs == config.checkAttributes
             children == childNodes(doc, node)
             ofAttr(attr) ==
               IF /\ hasAttribute(doc, node, attr)
                  /\ getAttribute(doc, node, attr) # << >>
                  /\ hasTranslationIssue(config, getAttribute(doc, node, attr))
                  /\ ~shouldExclude(doc, config, node)
                 THEN <<[type |-> "attribute",
                         text |-> getAttribute(doc, node, attr),
                         element |-> tagName(doc, node),
                         xpath |-> getXPath(doc, node)]>>
                 ELSE << >>
         IN Flatten([k \in DOMAIN attrs |-> ofAttr(attrs[k])])
            \o (IF ~shouldExclude(doc, config, node)
                  THEN Flatten([k \in DOMAIN children |->
                                  checkNodeUnnamed(doc, config, children[k])])
                  ELSE << >>)
  ELSE << >>

\* checkNode(node), the child nodes visited before the attributes are looked at
RECURSIVE checkNodeChildrenFirst(_, _, _)
checkNodeChildrenFirst(doc, config, node) ==
  IF doc.nodes[node].nodeType = "text"
    THEN LET text == trim(doc.nodes[node].data)
             element == parentElement(doc, node)
         IN IF /\ text # << >>
               /\ hasTranslationIssue(config, text)
               /\ element # 0
               /\ ~shouldExclude(doc, config, element)
              THEN <<[type |-> "text", text |-> text,
                      element |-> tagName(doc, element),
                      xpath |-> getXPath(doc, element)]>>
              ELSE << >>
  ELSE IF doc.nodes[node].nodeType = "element"
    THEN LET attrs == config.checkAttributes
             children == childNodes(doc, node)
             ofAttr(attr) ==
               IF /\ hasAttribute(doc, node, attr)
                  /\ getAttribute(doc, node, attr) # << >>
                  /\ hasTranslationIssue(config, getAttribute(doc, node, attr))
                  /\ ~shouldExclude(doc, config, node)
                 THEN <<[type |-> "attribute", attribute |-> attr,
                         text |-> getAttribute(doc, node, attr),
                         element |-> tagName(doc, node),
                         xpath |-> getXPath(doc, node)]>>
                 ELSE << >>
         IN (IF ~shouldExclude(doc, config, node)
               THEN Flatten([k \in DOMAIN children |->
                      checkNodeChildrenFirst(doc, config, children[k])])
               ELSE << >>)
            \o Flatten([k \in DOMAIN attrs |-> ofAttr(attrs[k])])
  ELSE << >>

\* checkNode(node): the errors it pushes, in the order it pushes them
RECURSIVE checkNode(_, _, _)
checkNode(doc, config, node) ==
  IF doc.nodes[node].nodeType = "text"
    THEN LET text == trim(doc.nodes[node].data)
             element == parentElement(doc, node)
         IN IF /\ text # << >>
               /\ hasTranslationIssue(config, text)
               /\ element # 0
               /\ ~shouldExclude(doc, config, element)
              THEN <<[type |-> "text", text |-> text,
                      element |-> tagName(doc, element),
                      xpath |-> getXPath(doc, element)]>>
              ELSE << >>
  ELSE IF doc.nodes[node].nodeType = "element"
    THEN LET attrs == config.checkAttributes
             children == childNodes(doc, node)
             ofAttr(attr) ==
               IF /\ hasAttribute(doc, node, attr)
                  /\ getAttribute(doc, node, attr) # << >>
                  /\ hasTranslationIssue(config, getAttribute(doc, node, attr))
                  /\ ~shouldExclude(doc, config, node)
                 THEN <<[type |-> "attribute", attribute |-> attr,
                         text |-> getAttribute(doc, node, attr),
                         element |-> tagName(doc, node),
                         xpath |-> getXPath(doc, node)]>>
                 ELSE << >>
         IN Flatten([k \in DOMAIN attrs |-> ofAttr(attrs[k])])
            \o (IF ~shouldExclude(doc, config, node)
                  THEN Flatten([k \in DOMAIN children |->
                                  checkNode(doc, config, children[k])])
                  ELSE << >>)
  ELSE << >>

\* The callback of cy.window().then in checkTranslations: errors is the
\* array when the callback ends, threw the error it ends with ("none" when
\* it returns errors).  checkNode(doc.body) reads node.nodeType of null when
\* the document has no body.
checkTranslations(doc, options) ==
  LET config == Config(options)
  IN IF doc.body = 0
       THEN [threw |-> "TypeError", count |-> 0, errors |-> << >>]
       ELSE LET errors == checkNode(doc, config, doc.body)
            IN IF config.failOnError /\ Len(errors) > 0
                 THEN [threw |-> "Error", count |-> Len(errors),
                       errors |-> errors]
                 ELSE [threw |-> "none", count |-> 0, errors |-> errors]

\* ------------------------------------------------------------ page content

HtmlElement == Element(0, <<"h", "t", "m", "l">>, << >>, {})
BodyElement == Element(1, <<"b", "o", "d", "y">>, << >>, {})

\* about:blank
BlankPage == [body |-> 2, nodes |-> <<HtmlElement, BodyElement>>]

\* <body><h1>Welcome</h1></body>
CleanPage ==
  [body |-> 2,
   nodes |-> <<HtmlElement, BodyElement,
               Element(2, <<"h", "1">>, << >>, {}),
               TextNode(3, <<"W", "e", "l", "c", "o", "m", "e">>)>>]

\* <body><span>{{user.name}}</span></body>
SpanPage ==
  [body |-> 2,
   nodes |-> <<HtmlElement, BodyElement,
               Element(2, <<"s", "p", "a", "n">>, << >>, {}),
               TextNode(3, <<"{", "{", "u", "s", "e", "r", ".", "n", "a", "m",
                             "e", "}", "}">>)>>]

\* The pages a destination may render: a clean page, and a page with one
\* untranslated text.
Pages == {CleanPage, SpanPage}

\* The defect the scan of SpanPage records.
TextDefect ==
  [type |-> "text",
   text |-> <<"{", "{", "u", "s", "e", "r", ".", "n", "a", "m", "e", "}", "}">>,
   element |-> <<"S", "P", "A", "N">>,
   xpath |-> <<"/", "h", "t", "m", "l", "/", "b", "o", "d", "y", "/",
               "s", "p", "a", "n">>]

\* ------------------------------------------------------------------- state

VARIABLES
  translationResults,  \* the Map of cypress.config.js, in insertion order
  translationChecker,  \* Cypress.translationChecker
  globalOptions,       \* the argument of enableAutoTranslationCheck
  document,            \* the active document (win.document)
  phase,               \* where the run is
  queue,               \* Cypress commands enqueued and not yet run
  subject,             \* what the last command yielded to its .then
  currentTest,         \* Cypress.currentTest.title
  specFile,            \* the number of the spec file being run
  testsRun,            \* tests started so far
  hookError,           \* an error was thrown by a command of afterEach
  pageResults,         \* the validation suite's snapshot
  summary,             \* outcome of "should collect translation results"
  validation,          \* outcome of "should validate each page individually"
  failures,            \* destinations whose failure was raised
  navLog,              \* url:changed events since the last test start
  lastPut,             \* per destination, the last put since the last clear
  scans,               \* scans executed so far: destination, test, defects
  visited,             \* destinations navigated to in test bodies
  lastOp,              \* the operation that led to this state
  cyLog,               \* the messages of the cy.log commands that ran
  manual,              \* the cy.checkTranslations calls of the test body
  probe,               \* hasTranslationIssue applied to a text under a config
  located              \* the calls of getXPath under study

vars ==
  << translationResults, translationChecker, globalOptions, document, phase,
     queue, subject, currentTest, specFile, testsRun, hookError, pageResults,
     summary, validation, failures, navLog, lastPut, scans, visited,
     lastOp, cyLog, manual, probe, located >>

reportVars == << pageResults, summary, validation, failures >>
testVars == << currentTest, specFile, testsRun >>
scanVars == << manual, probe, located >>

\* ------------------------------------------------------------ ResultStore

\* A JavaScript Map: entries [key, value] in insertion order.
Keys(map) == {map[i].key : i \in DOMAIN map}

\* Map.prototype.set: replaces the value of an existing key in place,
\* appends a new entry otherwise.
MapSetAppend(map, key, value) == Append(map, [key |-> key, value |-> value])

MapSet(map, key, value) ==
  IF key \in Keys(map)
    THEN [i \in DOMAIN map |->
            IF map[i].key = key THEN [key |-> key, value |-> value] ELSE map[i]]
    ELSE Append(map, [key |-> key, value |-> value])

\* Array.from(map.values())
MapValues(map) == [i \in DOMAIN map |-> map[i].value]

\* task storeTranslationResult({ url, errors, testContext })
storeTranslationResultAccumulate(map, arg) ==
  LET old == SelectSeq(map, LAMBDA e : e.key = arg.url)
      before == IF old = << >> THEN << >> ELSE old[1].value.errors
  IN MapSet(map, arg.url,
            [url |-> arg.url, errors |-> before \o arg.errors,
             testContext |-> arg.testContext])

\* task storeTranslationResult, a result without errors left out
storeTranslationResultDefectsOnly(map, arg) ==
  IF arg.errors = << >> THEN map
  ELSE MapSet(map, arg.url,
              [url |-> arg.url, errors |-> arg.errors,
               testContext |-> arg.testContext])

storeTranslationResult(map, arg) ==
  MapSet(map, arg.url,
         [url |-> arg.url, errors |-> arg.errors, testContext |-> arg.testContext])

\* task getTranslationResults(), the records with defects alone
getTranslationResultsWithErrors(map) ==
  SelectSeq(MapValues(map), LAMBDA r : Len(r.errors) > 0)

\* task getTranslationResults()
getTranslationResults(map) == MapValues(map)

\* task clearTranslationResults()
clearTranslationResults(map) == << >>

\* ------------------------------------------------------ NavigationTracker

\* the object enableAutoTranslationCheck creates when there is none
NewChecker == [visitedUrls |-> {}, lastUrl |-> Null, pendingCheck |-> FALSE]

\* globalOptions.waitTime || 500
FallbackWaitTime == 500

defaultWaitTime ==
  IF "waitTime" \in DOMAIN globalOptions /\ globalOptions.waitTime # 0
    THEN globalOptions.waitTime
    ELSE FallbackWaitTime

\* the options performTranslationCheck passes to cy.checkTranslations
AutoOptionsGlobalLast ==
  Spread([failOnError |-> FALSE, logErrors |-> FALSE], globalOptions)

AutoOptions ==
  Spread(globalOptions, [failOnError |-> FALSE, logErrors |-> FALSE])

\* the commands of the queue
WaitCmd(ms) == [cmd |-> "wait", ms |-> ms]
CheckCmd(options, url) ==
  [cmd |-> "checkTranslations", options |-> options, url |-> url]
TaskCmd(url) == [cmd |-> "storeTranslationResult", url |-> url]
WrapCmd(result) == [cmd |-> "wrapThen", result |-> result]

\* performTranslationCheck(currentUrl), called in the hook's function: what
\* it does to visitedUrls at once, and the commands it enqueues.
performTranslationCheckNoDedup(checker, currentUrl) ==
  [visitedUrls |-> checker.visitedUrls \cup {currentUrl},
   cmds |-> <<CheckCmd(AutoOptions, currentUrl), TaskCmd(currentUrl)>>]

performTranslationCheck(checker, currentUrl) ==
  IF currentUrl \in checker.visitedUrls
    THEN [visitedUrls |-> checker.visitedUrls, cmds |-> << >>]
    ELSE [visitedUrls |-> checker.visitedUrls \cup {currentUrl},
          cmds |-> <<CheckCmd(AutoOptions, currentUrl), TaskCmd(currentUrl)>>]

\* Cypress.on('url:changed', (newUrl) => ...)
urlChangedHandlerNoPending(checker, newUrl) ==
  IF checker.lastUrl # newUrl
    THEN [checker EXCEPT !.lastUrl = newUrl]
    ELSE checker

\* the handler, the first destination of the test kept in place of the last
urlChangedHandlerKeepFirst(checker, newUrl) ==
  IF checker.lastUrl = Null
    THEN [checker EXCEPT !.lastUrl = newUrl, !.pendingCheck = TRUE]
    ELSE checker

\* the handler without its comparison: every event counts as a change
urlChangedHandlerUnconditional(checker, newUrl) ==
  [checker EXCEPT !.lastUrl = newUrl, !.pendingCheck = TRUE]

urlChangedHandler(checker, newUrl) ==
  IF checker.lastUrl # newUrl
    THEN [checker EXCEPT !.lastUrl = newUrl, !.pendingCheck = TRUE]
    ELSE checker

\* beforeEach(() => ...): the three assignments of the reset
resetNothing(checker) == checker

beforeEachReset(checker) ==
  [checker EXCEPT !.visitedUrls = {}, !.lastUrl = Null, !.pendingCheck = FALSE]

\* the title of the n-th test of the run, in spec file s
Title(s, n) == <<s, n>>

\* ------------------------------------------------------------------- Init

\* no text under test
IdleProbe == [config |-> << >>, text |-> << >>, calls |-> << >>]

\* the state of the run before the first spec file, but for the position in
\* the run, the options of the setup call, the active document and the calls
\* under study
InitRun ==
  /\ translationResults = << >>
  /\ translationChecker = NewChecker
  /\ queue = << >>
  /\ subject = << >>
  /\ specFile = 1
  /\ hookError = FALSE
  /\ pageResults = << >>
  /\ summary = [outcome |-> "none", checked |-> 0, clean |-> 0, withIssues |-> 0]
  /\ validation = "none"
  /\ failures = << >>
  /\ navLog = << >>
  /\ lastPut = [u \in URLs |-> << >>]
  /\ scans = << >>
  /\ visited = {}
  /\ lastOp = "init"
  /\ cyLog = << >>

Init ==
  /\ InitRun
  /\ phase = "idle"
  /\ currentTest = Title(0, 0)
  /\ testsRun = 0
  /\ globalOptions \in GlobalOptionsSet
  /\ document = BlankPage
  /\ manual = << >>
  /\ probe = IdleProbe
  /\ located = << >>

\* ---------------------------------------------------------------- actions

\* The location of the active document changes to newUrl, whose page holds
\* the defects of `page`; Cypress fires url:changed.
UrlChanged(newUrl, page) ==
  /\ phase \in {"test", "afterEach"}
  /\ Len(navLog) < MaxNavs
  /\ translationChecker' = urlChangedHandler(translationChecker, newUrl)
  /\ document' = page
  /\ navLog' = Append(navLog, [url |-> newUrl, at |-> phase])
  /\ visited' = IF phase = "test" THEN visited \cup {newUrl} ELSE visited
  /\ lastOp' = "urlChanged"
  /\ UNCHANGED scanVars
  /\ cyLog' = cyLog
  /\ UNCHANGED << translationResults, globalOptions, phase, queue, subject,
                  hookError, lastPut, scans >>
  /\ UNCHANGED testVars
  /\ UNCHANGED reportVars

\* A test starts: the beforeEach hook runs.
BeforeEach ==
  /\ phase = "idle"
  /\ testsRun < MaxTests
  /\ translationChecker' = beforeEachReset(translationChecker)
  /\ phase' = "test"
  /\ testsRun' = testsRun + 1
  /\ currentTest' = Title(specFile, testsRun + 1)
  /\ navLog' = << >>
  /\ lastOp' = "beforeEach"
  /\ UNCHANGED scanVars
  /\ cyLog' = cyLog
  /\ UNCHANGED << translationResults, globalOptions, document, queue, subject,
                  specFile, hookError, lastPut, scans, visited >>
  /\ UNCHANGED reportVars

\* The test body is over: the function of the afterEach hook runs.  It
\* enqueues its commands and returns; the commands run afterwards.
AfterEachDrainAll ==
  /\ phase = "test"
  /\ phase' = "afterEach"
  /\ queue' = <<WaitCmd(defaultWaitTime)>> \o
       [i \in 1..(2 * Len(navLog)) |->
          IF i % 2 = 1 THEN CheckCmd(AutoOptions, navLog[(i + 1) \div 2].url)
                       ELSE TaskCmd(navLog[i \div 2].url)]
  /\ translationChecker' =
       [translationChecker EXCEPT
          !.visitedUrls = {navLog[i].url : i \in DOMAIN navLog},
                                  !.pendingCheck = FALSE]
  /\ lastOp' = "afterEach"
  /\ UNCHANGED scanVars
  /\ cyLog' = cyLog
  /\ UNCHANGED << translationResults, globalOptions, document, subject,
                  hookError, navLog, lastPut, scans, visited >>
  /\ UNCHANGED testVars
  /\ UNCHANGED reportVars

\* the function of the hook, cy.wait written after performTranslationCheck
AfterEachScanFirst ==
  /\ phase = "test"
  /\ phase' = "afterEach"
  /\ IF translationChecker.pendingCheck /\ translationChecker.lastUrl # Null
       THEN LET done == performTranslationCheck(translationChecker,
                                                translationChecker.lastUrl)
            IN /\ queue' = done.cmds \o <<WaitCmd(defaultWaitTime)>>
               /\ translationChecker' =
                    [translationChecker EXCEPT
                       !.visitedUrls = done.visitedUrls,
                       !.pendingCheck = FALSE]
       ELSE /\ queue' = << >>
            /\ translationChecker' = translationChecker
  /\ lastOp' = "afterEach"
  /\ UNCHANGED scanVars
  /\ cyLog' = cyLog
  /\ UNCHANGED << translationResults, globalOptions, document, subject,
                  hookError, navLog, lastPut, scans, visited >>
  /\ UNCHANGED testVars
  /\ UNCHANGED reportVars

AfterEach ==
  /\ phase = "test"
  /\ phase' = "afterEach"
  /\ IF translationChecker.pendingCheck /\ translationChecker.lastUrl # Null
       THEN LET done == performTranslationCheck(translationChecker,
                                                translationChecker.lastUrl)
            IN /\ queue' = <<WaitCmd(defaultWaitTime)>> \o done.cmds
               /\ translationChecker' =
                    [translationChecker EXCEPT
                       !.visitedUrls = done.visitedUrls,
                       !.pendingCheck = FALSE]
       ELSE /\ queue' = << >>
            /\ translationChecker' = translationChecker
  /\ lastOp' = "afterEach"
  /\ UNCHANGED scanVars
  /\ cyLog' = cyLog
  /\ UNCHANGED << translationResults, globalOptions, document, subject,
                  hookError, navLog, lastPut, scans, visited >>
  /\ UNCHANGED testVars
  /\ UNCHANGED reportVars

\* cy.wait(defaultWaitTime) : the settle delay elapses.
RunWait ==
  /\ phase = "afterEach"
  /\ queue # << >>
  /\ Head(queue).cmd = "wait"
  /\ queue' = Tail(queue)
  /\ lastOp' = "wait"
  /\ UNCHANGED scanVars
  /\ cyLog' = cyLog
  /\ UNCHANGED << translationResults, translationChecker, globalOptions,
                  document, phase, subject, hookError, navLog, lastPut, scans,
                  visited >>
  /\ UNCHANGED testVars
  /\ UNCHANGED reportVars

\* checkTranslations is a function of the document and the options alone:
\* its outcome on each page a destination may render, under each options
\* record the hook may pass, worked out once
HookScans ==
  {[doc |-> doc,
    options |-> Spread(g, [failOnError |-> FALSE, logErrors |-> FALSE]),
    outcome |->
      checkTranslations(doc, Spread(g, [failOnError |-> FALSE,
                                        logErrors |-> FALSE]))] :
     doc \in Pages \cup {BlankPage}, g \in GlobalOptionsSet}

\* checkTranslations(doc, options), read from HookScans where it is there
scanOf(doc, options) ==
  IF \E r \in HookScans : r.doc = doc /\ r.options = options
    THEN (CHOOSE r \in HookScans : r.doc = doc /\ r.options = options).outcome
    ELSE checkTranslations(doc, options)

\* cy.checkTranslations(options) of the hook: scans the active document,
\* throws when config.failOnError and defects were found (Cypress then drops
\* the rest of the queue and fails the hook), yields the errors otherwise.
RunCheckTranslations ==
  /\ phase = "afterEach"
  /\ queue # << >>
  /\ Head(queue).cmd = "checkTranslations"
  /\ LET outcome == scanOf(document, Head(queue).options)
     IN /\ scans' = Append(scans, [url |-> Head(queue).url,
                                   test |-> currentTest,
                                   errors |-> outcome.errors])
        /\ IF outcome.threw # "none"
             THEN /\ hookError' = TRUE
                  /\ queue' = << >>
                  /\ subject' = subject
             ELSE /\ hookError' = hookError
                  /\ queue' = Tail(queue)
                  /\ subject' = outcome.errors
  /\ lastOp' = "checkTranslations"
  /\ UNCHANGED scanVars
  /\ cyLog' = cyLog
  /\ UNCHANGED << translationResults, translationChecker, globalOptions,
                  document, phase, navLog, lastPut, visited >>
  /\ UNCHANGED testVars
  /\ UNCHANGED reportVars

\* .then((errors) => cy.task('storeTranslationResult', ...)); the task
\* returns null, which becomes the subject.
RunStoreTask ==
  /\ phase = "afterEach"
  /\ queue # << >>
  /\ Head(queue).cmd = "storeTranslationResult"
  /\ translationResults' =
       storeTranslationResult(translationResults,
                              [url |-> Head(queue).url,
                               errors |-> subject,
                               testContext |-> currentTest])
  /\ lastPut' = [lastPut EXCEPT ![Head(queue).url] =
                    << [url |-> Head(queue).url,
                        errors |-> subject,
                        testContext |-> currentTest] >>]
  /\ queue' = Tail(queue)
  /\ subject' = << >>
  /\ lastOp' = "put"
  /\ UNCHANGED scanVars
  /\ cyLog' = cyLog
  /\ UNCHANGED << translationChecker, globalOptions, document, phase,
                  hookError, navLog, scans, visited >>
  /\ UNCHANGED testVars
  /\ UNCHANGED reportVars

\* The commands of the hook have run: the test is over.
EndTest ==
  /\ phase = "afterEach"
  /\ queue = << >>
  /\ phase' = "idle"
  /\ lastOp' = "endTest"
  /\ UNCHANGED scanVars
  /\ cyLog' = cyLog
  /\ UNCHANGED << translationResults, translationChecker, globalOptions,
                  document, queue, subject, hookError, navLog, lastPut, scans,
                  visited >>
  /\ UNCHANGED testVars
  /\ UNCHANGED reportVars

\* The next spec file starts in a fresh browser context: the support file
\* runs again and enableAutoTranslationCheck creates the tracker anew; no
\* test of the file has started.  The Map lives in the Node process of
\* cypress.config.js and is left alone.
storeAcrossSpecFilesLost(map) == << >>

storeAcrossSpecFiles(map) == map

NextSpecFile ==
  /\ phase = "idle"
  /\ specFile < MaxSpecs
  /\ specFile' = specFile + 1
  /\ translationChecker' = NewChecker
  /\ translationResults' = storeAcrossSpecFiles(translationResults)
  /\ document' = BlankPage
  /\ currentTest' = Title(0, 0)
  /\ navLog' = << >>
  /\ lastOp' = "nextSpecFile"
  /\ UNCHANGED scanVars
  /\ cyLog' = cyLog
  /\ UNCHANGED << globalOptions, phase, queue, subject, testsRun, hookError,
                  lastPut, scans, visited >>
  /\ UNCHANGED reportVars

\* cy.task('clearTranslationResults'), the explicit reset, called between
\* two tests (from a before or after hook of a spec file).
ClearResults ==
  /\ phase = "idle"
  /\ translationResults # << >>
  /\ translationResults' = clearTranslationResults(translationResults)
  /\ visited' = {}
  /\ lastPut' = [u \in URLs |-> << >>]
  /\ lastOp' = "clear"
  /\ UNCHANGED scanVars
  /\ cyLog' = cyLog
  /\ UNCHANGED << translationChecker, globalOptions, document, phase, queue,
                  subject, hookError, navLog, scans >>
  /\ UNCHANGED testVars
  /\ UNCHANGED reportVars

\* --------------------------------------------------------- ReportGenerator

\* cy.log(message): the entry the command adds to the command log when it runs
LogEntry(text, n) == [text |-> text, n |-> n]
NoPagesNote ==
  [text |-> "No pages were visited - run your functional tests first"]

\* pageResults.length === 0
noPagesVisited(results) == Len(results) = 0

\* The validation suite is the spec file that sorts last
\* (zz-translation-validation.cy.js): it starts when the functional spec
\* files are over.  before(): fetch the records; when there are none the
\* callback enqueues cy.log(NoPagesNote) and calls this.skip(), which throws:
\* the hook ends as pending, Mocha marks the two tests pending without
\* running them, and the command enqueued by the callback is dropped with
\* the rest of the queue before it ran.
ReportBefore ==
  /\ phase = "idle"
  /\ pageResults' = getTranslationResults(translationResults)
  /\ IF noPagesVisited(pageResults')
       THEN /\ summary' = [summary EXCEPT !.outcome = "skipped"]
            /\ validation' = "skipped"
            /\ phase' = "done"
       ELSE /\ summary' = summary
            /\ validation' = validation
            /\ phase' = "summary"
  /\ queue' = << >>
  /\ translationChecker' = NewChecker
  /\ document' = BlankPage
  /\ currentTest' = Title(0, 0)
  /\ navLog' = << >>
  /\ lastOp' = "getAll"
  /\ UNCHANGED scanVars
  /\ cyLog' = cyLog
  /\ UNCHANGED << translationResults, globalOptions, subject, hookError,
                  failures, lastPut, scans, visited, specFile, testsRun >>

\* it('should collect translation results from all pages'): skips on an
\* empty snapshot; otherwise its three cy.log commands run after the body.
ReportSummary ==
  /\ phase = "summary"
  /\ IF noPagesVisited(pageResults)
       THEN /\ summary' = [summary EXCEPT !.outcome = "skipped"]
            /\ cyLog' = cyLog
       ELSE LET pagesWithErrors ==
                  SelectSeq(pageResults, LAMBDA r : Len(r.errors) > 0)
                pagesWithoutErrors == Len(pageResults) - Len(pagesWithErrors)
            IN /\ summary' = [outcome |-> "passed",
                              checked |-> Len(pageResults),
                              clean |-> pagesWithoutErrors,
                              withIssues |-> Len(pagesWithErrors)]
               /\ cyLog' = cyLog \o
                    << LogEntry("Checked pages", Len(pageResults)),
                       LogEntry("Clean pages", pagesWithoutErrors),
                       LogEntry("Pages with issues", Len(pagesWithErrors)) >>
  /\ phase' = "validate"
  /\ lastOp' = "summary"
  /\ UNCHANGED scanVars
  /\ UNCHANGED << translationResults, translationChecker, globalOptions,
                  document, queue, subject, hookError, pageResults, validation,
                  failures, navLog, lastPut, scans, visited >>
  /\ UNCHANGED testVars

\* it('should validate each page individually'): skips on an empty
\* snapshot; otherwise the body enqueues one cy.wrap(null).then(...) per
\* record and returns.
ReportValidate ==
  /\ phase = "validate"
  /\ validation = "none"
  /\ IF noPagesVisited(pageResults)
       THEN /\ validation' = "skipped"
            /\ queue' = queue
            /\ phase' = "done"
       ELSE /\ validation' = "running"
            /\ queue' = [i \in DOMAIN pageResults |-> WrapCmd(pageResults[i])]
            /\ phase' = phase
  /\ lastOp' = "validate"
  /\ UNCHANGED scanVars
  /\ cyLog' = cyLog
  /\ UNCHANGED << translationResults, translationChecker, globalOptions,
                  document, subject, hookError, pageResults, summary,
                  failures, navLog, lastPut, scans, visited >>
  /\ UNCHANGED testVars

\* the callback of one cy.wrap(null).then(...): throws when errorCount > 0
pageFailsAboveOne(result) == Len(result.errors) > 1

pageFails(result) == Len(result.errors) > 0

\* One enqueued callback runs.  A throw fails the test: Cypress drops the
\* commands still in the queue.
RunWrapThen ==
  /\ phase = "validate"
  /\ validation = "running"
  /\ queue # << >>
  /\ Head(queue).cmd = "wrapThen"
  /\ IF pageFails(Head(queue).result)
       THEN /\ failures' = Append(failures, Head(queue).result.url)
            /\ validation' = "failed"
            /\ queue' = << >>
            /\ phase' = "done"
       ELSE /\ failures' = failures
            /\ validation' = validation
            /\ queue' = Tail(queue)
            /\ phase' = phase
  /\ lastOp' = "wrapThen"
  /\ UNCHANGED scanVars
  /\ cyLog' = cyLog
  /\ UNCHANGED << translationResults, translationChecker, globalOptions,
                  document, subject, hookError, pageResults, summary, navLog,
                  lastPut, scans, visited >>
  /\ UNCHANGED testVars

\* Every callback returned without throwing: the test passes.
ReportValidateEnd ==
  /\ phase = "validate"
  /\ validation = "running"
  /\ queue = << >>
  /\ validation' = "passed"
  /\ phase' = "done"
  /\ lastOp' = "validateEnd"
  /\ UNCHANGED scanVars
  /\ cyLog' = cyLog
  /\ UNCHANGED << translationResults, translationChecker, globalOptions,
                  document, queue, subject, hookError, pageResults, summary,
                  failures, navLog, lastPut, scans, visited >>
  /\ UNCHANGED testVars

\* ------------------------------------------------------------------- Next

Next ==
  \/ \E newUrl \in URLs, page \in Pages : UrlChanged(newUrl, page)
  \/ BeforeEach
  \/ AfterEach
  \/ RunWait
  \/ RunCheckTranslations
  \/ RunStoreTask
  \/ EndTest
  \/ NextSpecFile
  \/ ClearResults
  \/ ReportBefore
  \/ ReportSummary
  \/ ReportValidate
  \/ RunWrapThen
  \/ ReportValidateEnd

Spec == Init /\ [][Next]_vars

\* ------------------------------- the run, under the settle delays passed

\* the options a support file may pass to enableAutoTranslationCheck as to
\* the settle delay: none, the values of the README, no delay at all
WaitOptionsSet ==
  { [logErrors |-> TRUE],
    [waitTime |-> 500],
    [waitTime |-> 1000],
    [waitTime |-> 300],
    [waitTime |-> 0] }

SettleInit ==
  /\ InitRun
  /\ phase = "idle"
  /\ currentTest = Title(0, 0)
  /\ testsRun = 0
  /\ globalOptions \in WaitOptionsSet
  /\ document = BlankPage
  /\ manual = << >>
  /\ probe = IdleProbe
  /\ located = << >>

SettleSpec == SettleInit /\ [][Next]_vars

\* ------------------------------------------- the matcher, applied to a text

\* the characters of the texts under test
Alphabet == {"{", "}", "A", ".", " "}

\* the longest text under test
MaxTextLen == 4

\* texts of the README and of the tests
SampleTexts ==
  { <<"{", "{", "u", "s", "e", "r", ".", "n", "a", "m", "e", "}", "}">>,
    <<"i", "1", "8", "n", ".", "s", "e", "a", "r", "c", "h", ".", "p", "l", "a",
      "c", "e", "h", "o", "l", "d", "e", "r">>,
    <<"[", "[", "k", "e", "y", "]", "]">>,
    <<"H", "i", " ", "$", "t", "(", "'", "k", "'", ")">>,
    <<"B", "R", "A", "N", "D", ".", "N", "A", "M", "E">>,
    <<"a", " ", "B", "R", "A", "N", "D", ".", "N", "A", "M", "E">>,
    <<"{", "{", "a", "\n", "b", "}", "}">>,
    <<"W", "e", "l", "c", "o", "m", "e">> }

Texts == UNION {[1..n -> Alphabet] : n \in 0..MaxTextLen} \cup SampleTexts

\* the options under which the matcher is applied: none; an allow-list as
\* in the README; patterns of the caller, two strings among them
MatchOptionsSet ==
  { << >>,
    [allowedKeys |-> << <<"A", ".", "A">> >>],
    [patterns |-> <<Literal(<<"{", "{">>), Literal(<<" ">>)>>,
     allowedKeys |-> << <<"}">> >>],
    [patterns |-> <<Mustache, Literal(<<".", " ">>)>>] }

MatchInit ==
  /\ InitRun
  /\ phase = "idle"
  /\ currentTest = Title(0, 0)
  /\ testsRun = 0
  /\ globalOptions = [logErrors |-> TRUE]
  /\ document = BlankPage
  /\ manual = << >>
  /\ probe \in {[config |-> Config(options), text |-> text, calls |-> << >>] :
                  options \in MatchOptionsSet, text \in Texts}
  /\ located = << >>

\* hasTranslationIssue(text) is called under config
ApplyHasTranslationIssue ==
  /\ probe.calls = << >>
  /\ probe' = [probe EXCEPT
                 !.calls = <<hasTranslationIssue(probe.config, probe.text)>>]
  /\ UNCHANGED << translationResults, translationChecker, globalOptions,
                  document, phase, queue, subject, currentTest, specFile,
                  testsRun, hookError, pageResults, summary, validation,
                  failures, navLog, lastPut, scans, visited, lastOp, cyLog,
                  manual, located >>

MatchNext == ApplyHasTranslationIssue

MatchSpec == MatchInit /\ [][MatchNext]_vars

\* ------------------------------------ the scanner, called from a test body

\* the element and text nodes the documents under test are built from; the
\* parent is set when the node is placed
KeyText == <<"{", "{", "k", "}", "}">>
Shapes ==
  { Element(0, <<"d", "i", "v">>, << >>, {}),
    Element(0, <<"d", "i", "v">>, <<Attr("data-translation-ignore", << >>)>>, {}),
    Element(0, <<"s", "p", "a", "n">>, << >>, {}),
    Element(0, <<"i", "n", "p", "u", "t">>, <<Attr("placeholder", KeyText)>>, {}),
    TextNode(0, KeyText),
    TextNode(0, <<"o", "k">>) }

\* nodes of a document under test below its body
MaxDocNodes == 3

\* the document of the nodes sh[1], sh[2], ... below the body, in this
\* order, node k + 2 being a child of node pa[k]
TreeOf(sh, pa) ==
  [body |-> 2,
   nodes |-> <<HtmlElement, BodyElement>> \o
             [k \in DOMAIN sh |-> [sh[k] EXCEPT !.parent = pa[k]]]]

\* the parent of each node is the body or an element placed before the node
WellFormed(sh, pa) ==
  \A k \in DOMAIN sh :
    /\ pa[k] < k + 2
    /\ IF pa[k] = 2 THEN TRUE ELSE sh[pa[k] - 2].nodeType = "element"

\* <body><input placeholder="i18n.search.placeholder"></body>
InputPage ==
  [body |-> 2,
   nodes |-> <<HtmlElement, BodyElement,
               Element(2, <<"i", "n", "p", "u", "t">>,
                       <<Attr("placeholder",
                              <<"i", "1", "8", "n", ".", "s", "e", "a", "r", "c",
                                "h", ".", "p", "l", "a", "c", "e", "h", "o", "l",
                                "d", "e", "r">>)>>, {})>>]

\* <body><div data-translation-ignore>{{debug.key}}</div></body>
IgnoredDivPage ==
  [body |-> 2,
   nodes |-> <<HtmlElement, BodyElement,
               Element(2, <<"d", "i", "v">>,
                       <<Attr("data-translation-ignore", << >>)>>, {}),
               TextNode(3, <<"{", "{", "d", "e", "b", "u", "g", ".", "k", "e",
                             "y", "}", "}">>)>>]

\* <html class="translation-ignore"><body><p title="{{k}}">{{k}}</p></body>
IgnoredRootPage ==
  [body |-> 2,
   nodes |-> <<Element(0, <<"h", "t", "m", "l">>, << >>, {"translation-ignore"}),
               BodyElement,
               Element(2, <<"p">>, <<Attr("title", KeyText)>>, {}),
               TextNode(3, KeyText)>>]

\* a document without a body element: doc.body is null
NoBodyPage == [body |-> 0, nodes |-> <<HtmlElement>>]

\* <body><p id="x">{{k}}</p><p id="x">{{k}}</p></body>: an id used twice
DuplicateIdPage ==
  [body |-> 2,
   nodes |-> <<HtmlElement, BodyElement,
               Element(2, <<"p">>, <<Attr("id", <<"x">>)>>, {}),
               TextNode(3, KeyText),
               Element(2, <<"p">>, <<Attr("id", <<"x">>)>>, {}),
               TextNode(5, KeyText)>>]

\* <body><input placeholder=" {{k}} "> {{k}} </body>
PaddedInputPage ==
  [body |-> 2,
   nodes |-> <<HtmlElement, BodyElement,
               Element(2, <<"i", "n", "p", "u", "t">>,
                       <<Attr("placeholder", <<" ">> \o KeyText \o <<" ">>)>>,
                       {}),
               TextNode(2, <<" ">> \o KeyText \o <<" ">>)>>]

\* <body><div title="{{t}}" placeholder="{{p}}">{{a}}<span>{{b}}</span></div>
\* {{c}}</body>
NestedPage ==
  [body |-> 2,
   nodes |-> <<HtmlElement, BodyElement,
               Element(2, <<"d", "i", "v">>,
                       <<Attr("title", <<"{", "{", "t", "}", "}">>),
                         Attr("placeholder", <<"{", "{", "p", "}", "}">>)>>, {}),
               TextNode(2, <<"{", "{", "c", "}", "}">>),
               TextNode(3, <<"{", "{", "a", "}", "}">>),
               Element(3, <<"s", "p", "a", "n">>, << >>, {}),
               TextNode(6, <<"{", "{", "b", "}", "}">>)>>]

\* <body><script>{{k}}</script>ok</body>
ScriptPage ==
  [body |-> 2,
   nodes |-> <<HtmlElement, BodyElement,
               Element(2, <<"s", "c", "r", "i", "p", "t">>, << >>, {}),
               TextNode(3, KeyText),
               TextNode(2, <<"o", "k">>)>>]

\* pages of the scenarios of the documentation and of the tests
SamplePages ==
  {CleanPage, SpanPage, InputPage, IgnoredDivPage, IgnoredRootPage, NoBodyPage,
   DuplicateIdPage, PaddedInputPage}

\* the options a test passes to cy.checkTranslations: none; those of the
\* repository's tests; patterns, exclusions, an allow-list of the caller
ManualOptionsSet ==
  { << >>,
    [failOnError |-> FALSE, logErrors |-> FALSE],
    [failOnError |-> FALSE, patterns |-> <<Literal(<<"o", "k">>)>>],
    [failOnError |-> FALSE,
     excludeSelectors |-> <<TypeSel(<<"s", "p", "a", "n">>)>>],
    [failOnError |-> FALSE, allowedKeys |-> << <<"k">> >>] }

\* a test body has begun and the page is rendered
ScanInit ==
  /\ InitRun
  /\ phase = "test"
  /\ currentTest = Title(1, 1)
  /\ testsRun = 1
  /\ globalOptions = [logErrors |-> TRUE]
  /\ \/ document \in SamplePages
     \/ \E n \in 0..MaxDocNodes :
          \E sh \in [1..n -> Shapes], pa \in [1..n -> 2..(n + 1)] :
            WellFormed(sh, pa) /\ document = TreeOf(sh, pa)
  /\ manual = << >>
  /\ probe = IdleProbe
  /\ located = << >>

\* cy.checkTranslations(options) in a test body: the command yields errors,
\* or fails the test with what its callback threw.
ManualCheck(options) ==
  /\ phase = "test"
  /\ manual = << >>
  /\ LET outcome == checkTranslations(document, options)
     IN /\ manual' = <<[options |-> options, outcome |-> outcome]>>
        /\ subject' = IF outcome.threw = "none" THEN outcome.errors ELSE subject
  /\ lastOp' = "manualCheck"
  /\ UNCHANGED << translationResults, translationChecker, globalOptions,
                  document, phase, queue, currentTest, specFile, testsRun,
                  hookError, pageResults, summary, validation, failures,
                  navLog, lastPut, scans, visited, cyLog, probe, located >>

ScanNext == \E options \in ManualOptionsSet : ManualCheck(options)

ScanSpec == ScanInit /\ [][ScanNext]_vars

\* ------------------------- the scanner, called twice on the same document

\* the nodes of the documents scanned twice: the section of class bad is
\* the one the repository's test excludes
ExcludeShapes ==
  { Element(0, <<"d", "i", "v">>, << >>, {}),
    Element(0, <<"d", "i", "v">>, << >>, {"bad"}),
    Element(0, <<"s", "p", "a", "n">>, <<Attr("title", KeyText)>>, {}),
    TextNode(0, KeyText) }

\* the options of the first call: the default exclusions, none, one
ExcludeOptionsSet ==
  { [failOnError |-> FALSE],
    [failOnError |-> FALSE, excludeSelectors |-> << >>],
    [failOnError |-> FALSE,
     excludeSelectors |-> <<TypeSel(<<"s", "p", "a", "n">>)>>] }

\* the selectors the second call adds to those of the first
MoreSelectors ==
  { <<ClassSel("bad")>>,
    <<TypeSel(<<"s", "p", "a", "n">>), TypeSel(<<"d", "i", "v">>)>> }

ExcludeInit ==
  /\ InitRun
  /\ phase = "test"
  /\ currentTest = Title(1, 1)
  /\ testsRun = 1
  /\ globalOptions = [logErrors |-> TRUE]
  /\ \E n \in 0..MaxDocNodes :
       \E sh \in [1..n -> ExcludeShapes], pa \in [1..n -> 2..(n + 1)] :
         WellFormed(sh, pa) /\ document = TreeOf(sh, pa)
  /\ manual = << >>
  /\ probe = IdleProbe
  /\ located = << >>

\* cy.checkTranslations is called again in the same test body on the same
\* document, the options those of the first call but for excludeSelectors,
\* which lists the selectors in effect in the first call and more, put
\* after them or before them.
ManualCheckExcluding(more, after) ==
  /\ phase = "test"
  /\ Len(manual) = 1
  /\ LET first == Config(manual[1].options).excludeSelectors
         options == Spread(manual[1].options,
                           [excludeSelectors |->
                              IF after THEN first \o more ELSE more \o first])
         outcome == checkTranslations(document, options)
     IN /\ manual' = Append(manual, [options |-> options, outcome |-> outcome])
        /\ subject' = IF outcome.threw = "none" THEN outcome.errors ELSE subject
  /\ lastOp' = "manualCheck"
  /\ UNCHANGED << translationResults, translationChecker, globalOptions,
                  document, phase, queue, currentTest, specFile, testsRun,
                  hookError, pageResults, summary, validation, failures,
                  navLog, lastPut, scans, visited, cyLog, probe, located >>

ExcludeNext ==
  \/ \E options \in ExcludeOptionsSet : ManualCheck(options)
  \/ \E more \in MoreSelectors, after \in BOOLEAN :
       ManualCheckExcluding(more, after)

ExcludeSpec == ExcludeInit /\ [][ExcludeNext]_vars

\* --------------------------- the scanner, on documents that show its order

\* the nodes of the documents whose defects come in an order: a div that
\* carries two checked attributes, title written first; a span; a text
OrderShapes ==
  { Element(0, <<"d", "i", "v">>,
            <<Attr("title", <<"{", "{", "t", "}", "}">>),
              Attr("placeholder", <<"{", "{", "p", "}", "}">>)>>, {}),
    Element(0, <<"s", "p", "a", "n">>, << >>, {}),
    TextNode(0, KeyText),
    TextNode(0, <<"{", "{", "a", "}", "}">>) }

\* the options of the call: the default checkAttributes, and a list of the
\* caller that names title before placeholder
OrderOptionsSet ==
  { [failOnError |-> FALSE],
    [failOnError |-> FALSE, checkAttributes |-> <<"title", "placeholder">>] }

OrderInit ==
  /\ InitRun
  /\ phase = "test"
  /\ currentTest = Title(1, 1)
  /\ testsRun = 1
  /\ globalOptions = [logErrors |-> TRUE]
  /\ \/ document = NestedPage
     \/ \E n \in 0..MaxDocNodes :
          \E sh \in [1..n -> OrderShapes], pa \in [1..n -> 2..(n + 1)] :
            WellFormed(sh, pa) /\ document = TreeOf(sh, pa)
  /\ manual = << >>
  /\ probe = IdleProbe
  /\ located = << >>

OrderNext == \E options \in OrderOptionsSet : ManualCheck(options)

OrderSpec == OrderInit /\ [][OrderNext]_vars

\* ------------------------------- the scanner, under the options of a caller

\* the nodes of the documents scanned under the options of a caller: what
\* the default exclusions, patterns and attributes tell apart
OptionShapes ==
  { Element(0, <<"s", "c", "r", "i", "p", "t">>, << >>, {}),
    Element(0, <<"s", "p", "a", "n">>,
            <<Attr("title", KeyText), Attr("lang", KeyText)>>, {}),
    TextNode(0, KeyText),
    TextNode(0, <<"o", "k">>) }

\* the options of the call: none; each option of defaultConfig supplied
\* alone or with failOnError
CallerOptionsSet ==
  { << >>,
    [failOnError |-> FALSE],
    [logErrors |-> FALSE],
    [excludeSelectors |-> << >>],
    [failOnError |-> FALSE,
     excludeSelectors |-> <<TypeSel(<<"s", "p", "a", "n">>)>>],
    [failOnError |-> FALSE, patterns |-> <<Literal(<<"o", "k">>)>>],
    [failOnError |-> FALSE, allowedKeys |-> << <<"k">> >>],
    [failOnError |-> FALSE, checkAttributes |-> <<"lang">>] }

OptionsInit ==
  /\ InitRun
  /\ phase = "test"
  /\ currentTest = Title(1, 1)
  /\ testsRun = 1
  /\ globalOptions = [logErrors |-> TRUE]
  /\ \/ document \in {ScriptPage, IgnoredDivPage, InputPage}
     \/ \E n \in 0..MaxDocNodes :
          \E sh \in [1..n -> OptionShapes], pa \in [1..n -> 2..(n + 1)] :
            WellFormed(sh, pa) /\ document = TreeOf(sh, pa)
  /\ manual = << >>
  /\ probe = IdleProbe
  /\ located = << >>

OptionsNext == \E options \in CallerOptionsSet : ManualCheck(options)

OptionsSpec == OptionsInit /\ [][OptionsNext]_vars

\* ---------------------------------------- getXPath, called on an element

\* the nodes the trees under study are built from
PathShapes ==
  { Element(0, <<"d", "i", "v">>, << >>, {}),
    Element(0, <<"s", "p", "a", "n">>, << >>, {}),
    Element(0, <<"d", "i", "v">>, <<Attr("id", <<"x">>)>>, {}),
    Element(0, <<"d", "i", "v">>, <<Attr("id", << >>)>>, {}),
    TextNode(0, <<"a">>) }

\* nodes under study besides html and body
MaxPathNodes == 3

\* the parent of each node is the body or an element placed before the
\* node, or null: the node is then the top of a tree that is in no document
PathWellFormed(sh, pa) ==
  \A k \in DOMAIN sh :
    /\ pa[k] < k + 2
    /\ IF pa[k] \in {NoNode, 2} THEN TRUE
                                ELSE sh[pa[k] - 2].nodeType = "element"

\* the elements of doc
Elements(doc) == {n \in DOMAIN doc.nodes : isElement(doc, n)}

\* a page is rendered and the script holds elements, some of them in no
\* document
PathInit ==
  /\ InitRun
  /\ phase = "test"
  /\ currentTest = Title(1, 1)
  /\ testsRun = 1
  /\ globalOptions = [logErrors |-> TRUE]
  /\ \E n \in 1..MaxPathNodes :
       \E sh \in [1..n -> PathShapes],
          pa \in [1..n -> {NoNode} \cup 2..(n + 1)] :
         PathWellFormed(sh, pa) /\ document = TreeOf(sh, pa)
  /\ manual = << >>
  /\ probe = IdleProbe
  /\ located = << >>

\* getXPath(element) is called
Locate(element) ==
  /\ located = << >>
  /\ located' = <<[element |-> element,
                   outcome |-> getXPathCall(document, element)]>>
  /\ lastOp' = "getXPath"
  /\ UNCHANGED << translationResults, translationChecker, globalOptions,
                  document, phase, queue, subject, currentTest, specFile,
                  testsRun, hookError, pageResults, summary, validation,
                  failures, navLog, lastPut, scans, visited, cyLog, manual,
                  probe >>

PathNext == \E element \in Elements(document) \cup {NoNode} : Locate(element)

PathSpec == PathInit /\ [][PathNext]_vars

\* ------------------------------------------------------ derived notions

\* Map.prototype.get for a key the map holds
MapGet(map, key) == map[CHOOSE i \in DOMAIN map : map[i].key = key].value

\* how many entries the map holds under a key
Entries(map, key) == Count(map, LAMBDA e : e.key = key)

\* how many scans test t executed that were attributed to destination u
ScansOf(t, u) == Count(scans, LAMBDA sc : sc.test = t /\ sc.url = u)

\* the scans test t executed
TestScans(t) == SelectSeq(scans, LAMBDA sc : sc.test = t)

\* the destinations of the url:changed events the current test's body saw,
\* and of those that arrived while the afterEach commands ran
BodyNavs ==
  LET b == SelectSeq(navLog, LAMBDA n : n.at = "test")
  IN [i \in DOMAIN b |-> b[i].url]

HookNavs ==
  LET h == SelectSeq(navLog, LAMBDA n : n.at = "afterEach")
  IN [i \in DOMAIN h |-> h[i].url]

\* the test that just ended
TestEnded == lastOp = "endTest"

\* ----------------------------------------------------------------- claims

\* C1: no destination is scanned more than once between two consecutive
\* test starts, however many url:changed events carried it.
C1_AtMostOneScanPerDestinationPerTest ==
  \A i \in DOMAIN scans : ScansOf(scans[i].test, scans[i].url) <= 1

\* C1 witness: a test whose body saw the same destination at least twice,
\* with another destination in between, has ended with that destination
\* scanned.
C1_Witness ==
  /\ TestEnded
  /\ \E u \in URLs :
       /\ Count(BodyNavs, LAMBDA d : d = u) >= 2
       /\ \E d \in Range(BodyNavs) : d # u
       /\ ScansOf(currentTest, u) = 1

\* C2: when a test is over, every destination its body navigated to has
\* been scanned exactly once in that test (nothing pending is cancelled).
C2_EveryPendingNavigationScanned ==
  TestEnded => \A u \in Range(BodyNavs) : ScansOf(currentTest, u) = 1

\* the scenario of C3: the body of the test that just ended navigated
\* /a, /b, /a
C3_Scenario ==
  /\ TestEnded
  /\ BodyNavs = <<"/a", "/b", "/a">>

C4_Deduplication ==
  \A u \in URLs :
    (/\ TestEnded
     /\ BodyNavs # << >>
     /\ \A i \in DOMAIN navLog : navLog[i].url = u)
    => /\ Len(TestScans(currentTest)) = 1
       /\ ScansOf(currentTest, u) = 1
       /\ Entries(translationResults, u) = 1
       /\ MapGet(translationResults, u) =
            [url |-> u, errors |-> TestScans(currentTest)[1].errors,
             testContext |-> currentTest]

\* C4 witness: a test with three navigations to one destination has ended,
\* and an earlier test had stored a record for the same destination.
C4_Witness ==
  /\ TestEnded
  /\ Len(BodyNavs) >= 2
  /\ Len(navLog) = 3
  /\ \A i \in DOMAIN navLog : navLog[i].url = "/a"
  /\ ScansOf(currentTest, "/a") = 1
  /\ \E i \in DOMAIN scans : scans[i].url = "/a" /\ scans[i].test # currentTest

\* C5: no command of the afterEach hook ever throws because defects were
\* found, whatever options were passed to the setup.
C5_AutomaticScanNeverFails == hookError = FALSE

\* C5 witness: the setup was given failOnError: true, an automatic scan found
\* defects, and they were written to the store.
C5_Witness ==
  /\ "failOnError" \in DOMAIN globalOptions
  /\ globalOptions.failOnError
  /\ lastOp = "put"
  /\ \E i \in DOMAIN translationResults :
       /\ Len(translationResults[i].value.errors) > 0
       /\ translationResults[i].value.testContext = currentTest

\* C6: the store holds at most one record per destination, and it is the
\* one of the most recent put for that destination since the last clear.
C6_LastWriteWins ==
  \A u \in URLs :
    /\ Entries(translationResults, u) <= 1
    /\ lastPut[u] = << >> => u \notin Keys(translationResults)
    /\ lastPut[u] # << >> =>
         /\ u \in Keys(translationResults)
         /\ MapGet(translationResults, u) = lastPut[u][1]

\* C6 witness: a destination was put by two tests with different defects,
\* and the store holds the later one.
C6_Witness ==
  /\ lastOp = "put"
  /\ lastPut[scans[1].url] # << >>
  /\ \E i \in DOMAIN scans :
       /\ scans[i].test # currentTest
       /\ scans[i].url \in Keys(translationResults)
       /\ Len(scans[i].errors) > 0
       /\ MapGet(translationResults, scans[i].url).testContext = currentTest
       /\ MapGet(translationResults, scans[i].url).errors = << >>

\* the defects of the latest scan attributed to destination u
LatestScan(u) ==
  LET of == SelectSeq(scans, LAMBDA sc : sc.url = u)
  IN of[Len(of)].errors

\* C7: the records getAll returns are exactly one per destination visited in
\* the run's tests, each with the defects of that destination's latest scan.
C7_OneRecordPerVisitedDestination ==
  lastOp = "getAll" =>
    /\ Len(pageResults) = Cardinality(visited)
    /\ {pageResults[i].url : i \in DOMAIN pageResults} = visited
    /\ \A i \in DOMAIN pageResults :
         pageResults[i].errors = LatestScan(pageResults[i].url)

\* C8: only the explicit clear removes records: every other operation than
\* put and clear leaves the store as it was, no put removes a destination,
\* and getAll returns every record put since the last clear, also those of
\* earlier spec files.
C8_StoreOnlyClearedExplicitly ==
  [][/\ lastOp' \notin {"put", "clear"} =>
          translationResults' = translationResults
     /\ lastOp' # "clear" =>
          Keys(translationResults) \subseteq Keys(translationResults')
     /\ lastOp' = "getAll" =>
          \A u \in URLs :
            lastPut[u] # << >> => lastPut[u][1] \in Range(pageResults')]_vars

\* C8 witness: getAll, after the second spec file ran a test, returns a record
\* written by a test of the first spec file.
C8_Witness ==
  /\ lastOp = "getAll"
  /\ specFile = 2
  /\ \E i \in DOMAIN scans : scans[i].test[1] = 2
  /\ \E i \in DOMAIN pageResults : pageResults[i].testContext[1] = 1

C10_ValidationFailsIffDefects ==
  /\ validation = "failed" =>
       \E i \in DOMAIN pageResults : Len(pageResults[i].errors) > 0
  /\ validation = "passed" =>
       /\ pageResults # << >>
       /\ \A i \in DOMAIN pageResults : Len(pageResults[i].errors) = 0
  /\ (phase = "done" /\ pageResults # << >>) =>
       validation \in {"passed", "failed"}
  /\ \A k \in DOMAIN failures :
       \E i \in DOMAIN pageResults :
         /\ pageResults[i].url = failures[k]
         /\ Len(pageResults[i].errors) > 0

\* C10 witness: the check failed on a snapshot holding a clean record and a
\* record with defects.
C10_Witness ==
  /\ phase = "done"
  /\ validation = "failed"
  /\ \E i, j \in DOMAIN pageResults :
       /\ Len(pageResults[i].errors) = 0
       /\ Len(pageResults[j].errors) > 0

\* C10 witness, the other side: the check passed on two clean records.
C10_WitnessPassed ==
  /\ phase = "done"
  /\ validation = "passed"
  /\ Len(pageResults) = 2

\* ---------------------------------------------------------------- C11..C12

\* the destinations of the snapshot whose record has a defect
DefectBearing == { pageResults[i].url : i \in { j \in DOMAIN pageResults :
                                                  Len(pageResults[j].errors) > 0 } }

\* C11: when the validation pass is over, a failure has been surfaced for
\* every destination record of the snapshot that has a defect, not only for
\* the first one met.
C11_FailurePerDefectBearingDestination ==
  phase = "done" => Range(failures) = DefectBearing

\* the report ran on an empty store
ReportOnEmptyStore == phase = "done" /\ pageResults = << >>

\* C12: when the store holds no record at report time, both report checks
\* end skipped, neither fails, and the informational note is in the command
\* log.
C12_SkippedWithNote ==
  ReportOnEmptyStore =>
    /\ summary.outcome = "skipped"
    /\ validation = "skipped"
    /\ failures = << >>
    /\ NoPagesNote \in Range(cyLog)

\* ---------------------------------------------------------------- C14..C16

\* t occurs in s as a run of consecutive characters
Substring(t, s) ==
  \E a \in 0..Len(s) : \E b \in a..Len(s) : SubSeq(s, a + 1, b) = t

\* s[i], s[i + 1] are the characters c, c
Twice(s, i, c) == i + 1 <= Len(s) /\ s[i] = c /\ s[i + 1] = c

\* s holds an opening pair, then characters other than a line terminator,
\* then a closing pair
Enclosed(s, open, close) ==
  \E i \in DOMAIN s : \E j \in (i + 2)..Len(s) :
    /\ Twice(s, i, open)
    /\ Twice(s, j, close)
    /\ \A k \in (i + 2)..(j - 1) : s[k] \notin LineTerminators

\* what each pattern of the repository is meant to find in s
Denotes(pattern, s) ==
  IF ~pattern.isRegExp THEN Substring(pattern.str, s)
  ELSE CASE pattern.source = Mustache.source -> Enclosed(s, "{", "}")
         [] pattern.source = Brackets.source -> Enclosed(s, "[", "]")
         [] pattern.source = I18nPrefix.source ->
              Substring(<<"i", "1", "8", "n", ".">>, s)
         [] pattern.source = ConstantKey.source ->
              \E d \in 2..(Len(s) - 1) :
                /\ s[d] = "."
                /\ \A k \in 1..(d - 1) : s[k] \in UpperOrUnderscore
                /\ s[d + 1] \in UpperOrUnderscore
         [] pattern.source = VueCall.source ->
              \E i \in DOMAIN s : \E j \in (i + 3)..Len(s) :
                /\ SubSeq(s, i, i + 2) = <<"$", "t", "(">>
                /\ s[j] = ")"
                /\ \A k \in (i + 3)..(j - 1) : s[k] \notin LineTerminators

MatchesAPattern(config, s) ==
  \E k \in DOMAIN config.patterns : Denotes(config.patterns[k], s)

ContainsAllowedKey(config, s) ==
  \E k \in DOMAIN config.allowedKeys : Substring(config.allowedKeys[k], s)

Blank(s) == \A i \in DOMAIN s : s[i] \in WhiteSpace

Applied == probe.calls # << >>

\* C14: allow-list precedence.  A text that contains an entry of allowedKeys
\* is not a defect, whether or not it matches a pattern.
C14_AllowListPrecedence ==
  (Applied /\ ContainsAllowedKey(probe.config, probe.text)) =>
    probe.calls[1] = FALSE

\* C14 witness: a text that matches a pattern and contains an allowed key
\* was judged, and is not a defect.
C14_Witness ==
  /\ Applied
  /\ ContainsAllowedKey(probe.config, probe.text)
  /\ MatchesAPattern(probe.config, probe.text)
  /\ probe.calls[1] = FALSE

\* C15: a text that is not blank and contains no allowed key is a defect
\* exactly when a pattern matches it: a regular expression anywhere in the
\* text, a string as a substring.
C15_DefectIffPatternMatches ==
  (Applied /\ ~Blank(probe.text) /\ ~ContainsAllowedKey(probe.config, probe.text))
    => (probe.calls[1] <=> MatchesAPattern(probe.config, probe.text))

\* C15 witness: a defect found by a regular expression in the middle of the
\* text, the text as a whole not being a match.
C15_Witness ==
  /\ Applied
  /\ probe.calls[1]
  /\ \E k \in DOMAIN probe.config.patterns :
       /\ probe.config.patterns[k].isRegExp
       /\ Denotes(probe.config.patterns[k], probe.text)
  /\ probe.text[1] = "A" /\ probe.text[Len(probe.text)] = " "

\* C15 witness: a defect found by a string pattern inside a longer text.
C15_WitnessLiteral ==
  /\ Applied
  /\ probe.calls[1]
  /\ \A k \in DOMAIN probe.config.patterns : ~probe.config.patterns[k].isRegExp
  /\ \E k \in DOMAIN probe.config.patterns :
       /\ Substring(probe.config.patterns[k].str, probe.text)
       /\ probe.config.patterns[k].str # probe.text

\* C15 witness: a text no pattern matches is not a defect.
C15_WitnessNoMatch ==
  /\ Applied
  /\ ~probe.calls[1]
  /\ ~Blank(probe.text)
  /\ ~ContainsAllowedKey(probe.config, probe.text)

\* C16: an empty or blank text is not a defect, whatever the patterns and
\* the allow-list.
C16_BlankIsNoDefect ==
  (Applied /\ Blank(probe.text)) => probe.calls[1] = FALSE

\* C16 witness: a blank text that a pattern of the config matches was judged.
C16_Witness ==
  /\ Applied
  /\ probe.text # << >>
  /\ Blank(probe.text)
  /\ MatchesAPattern(probe.config, probe.text)
  /\ probe.calls[1] = FALSE

\* ---------------------------------------------------------- C13, C17, C18

\* element n and its ancestors
RECURSIVE Chain(_, _)
Chain(doc, n) ==
  IF n = 0 THEN {} ELSE {n} \cup Chain(doc, doc.nodes[n].parent)

\* e or an ancestor of e matches an exclude selector of config
Excluded(doc, config, e) ==
  \E m \in Chain(doc, e) : \E k \in DOMAIN config.excludeSelectors :
    matches(doc, m, config.excludeSelectors[k])

\* What a scan has to judge: <<n, "#text">> for a text node n below the
\* body, <<n, a>> for an attribute a of config.checkAttributes that an
\* element n of the body's subtree carries.
Candidates(doc, config) ==
  {c \in (DOMAIN doc.nodes) \X ({"#text"} \cup Range(config.checkAttributes)) :
     /\ doc.body \in Chain(doc, c[1])
     /\ IF c[2] = "#text"
          THEN doc.nodes[c[1]].nodeType = "text"
          ELSE isElement(doc, c[1]) /\ hasAttribute(doc, c[1], c[2])}

\* the element a candidate belongs to, and the string judged
Owner(doc, c) == IF c[2] = "#text" THEN doc.nodes[c[1]].parent ELSE c[1]
Value(doc, c) ==
  IF c[2] = "#text" THEN trim(doc.nodes[c[1]].data)
                    ELSE getAttribute(doc, c[1], c[2])

\* the defect a candidate is reported as
Rec(doc, c) ==
  IF c[2] = "#text"
    THEN [type |-> "text", text |-> Value(doc, c),
          element |-> tagName(doc, Owner(doc, c)),
          xpath |-> getXPath(doc, Owner(doc, c))]
    ELSE [type |-> "attribute", attribute |-> c[2], text |-> Value(doc, c),
          element |-> tagName(doc, Owner(doc, c)),
          xpath |-> getXPath(doc, Owner(doc, c))]

IsDefect(config, s) ==
  ~Blank(s) /\ ~ContainsAllowedKey(config, s) /\ MatchesAPattern(config, s)

\* the candidates that are defects of elements not excluded
Reportable(doc, config) ==
  {c \in Candidates(doc, config) :
     /\ IsDefect(config, Value(doc, c))
     /\ ~Excluded(doc, config, Owner(doc, c))}

\* a manual scan ran; its options, its config and the errors it collected
Scanned == manual # << >>
ScanOptions == manual[1].options
ScanConfig == Config(manual[1].options)
ScanErrors == manual[1].outcome.errors

\* the caller left patterns, exclusions, allow-list and attributes alone
DefaultScan == DOMAIN ScanOptions \subseteq {"failOnError", "logErrors"}

\* C13: exclusion is subtree-transitive.  No text or attribute of an element
\* that matches an exclude selector, or that has an ancestor matching one at
\* any depth, is among the defects of a scan.
C13_ExcludedSubtreeNeverReported ==
  Scanned =>
    LET config == ScanConfig
        reported == Range(ScanErrors)
    IN \A c \in Candidates(document, config) :
         Excluded(document, config, Owner(document, c)) =>
           Rec(document, c) \notin reported

\* C13 witness: a scan that reported nothing of a key-like text two levels
\* below an element carrying data-translation-ignore.
C13_Witness ==
  /\ Scanned
  /\ \E c \in Candidates(document, ScanConfig) :
       /\ c[2] = "#text"
       /\ IsDefect(ScanConfig, Value(document, c))
       /\ ~hasAttribute(document, Owner(document, c), "data-translation-ignore")
       /\ \E m \in Chain(document, Owner(document, c)) :
            hasAttribute(document, m, "data-translation-ignore")
       /\ Rec(document, c) \notin Range(ScanErrors)

\* C13 witness: <div data-translation-ignore>{{debug.key}}</div> was scanned
\* and nothing was reported.
C13_WitnessScenario ==
  /\ Scanned
  /\ DefaultScan
  /\ document = IgnoredDivPage
  /\ ScanErrors = << >>

\* C17: scan soundness.  Every defect of a scan is the record of a text or
\* attribute value that matches a pattern of the config in effect, contains
\* no allowed key and belongs to an element that is not excluded; under
\* patterns of the caller, every defect matches one of those.
C17_ScanSoundness ==
  Scanned =>
    LET config == ScanConfig
        errors == ScanErrors
        candidates == Candidates(document, config)
    IN \A i \in DOMAIN errors :
         /\ \E c \in candidates :
              /\ Rec(document, c) = errors[i]
              /\ MatchesAPattern(config, Value(document, c))
              /\ ~ContainsAllowedKey(config, Value(document, c))
              /\ ~Excluded(document, config, Owner(document, c))
         /\ "patterns" \in DOMAIN ScanOptions =>
              \E k \in DOMAIN ScanOptions.patterns :
                Denotes(ScanOptions.patterns[k], errors[i].text)

\* C17 witness: a scan under patterns of the caller reported a defect on a
\* page that also shows a text the default patterns match.
C17_Witness ==
  /\ Scanned
  /\ "patterns" \in DOMAIN ScanOptions
  /\ ScanErrors # << >>
  /\ \E c \in Candidates(document, ScanConfig) :
       MatchesAPattern(defaultConfig, Value(document, c))

\* C18: scan completeness.  Each text node and each checkAttributes value
\* that is a defect of an element not excluded is reported once: the errors
\* hold each record as many times as there are such candidates with it,
\* and nothing else.  The span with {{user.name}} yields the one text defect
\* of element SPAN; the input with the i18n placeholder yields one attribute
\* defect of attribute placeholder.
C18_ScanCompleteness ==
  Scanned =>
    LET errors == ScanErrors
        reportable == Reportable(document, ScanConfig)
    IN /\ Len(errors) = Cardinality(reportable)
       /\ \A c \in reportable :
            Cardinality({i \in DOMAIN errors : errors[i] = Rec(document, c)})
              = Cardinality({d \in reportable :
                               Rec(document, d) = Rec(document, c)})
       /\ (DefaultScan /\ document = SpanPage) => errors = <<TextDefect>>
       /\ (DefaultScan /\ document = InputPage) =>
            /\ Len(errors) = 1
            /\ errors[1].type = "attribute"
            /\ errors[1].attribute = "placeholder"

\* C18 witness: a scan reported an attribute defect and the same text defect
\* twice, once for each of two text nodes of one element.
C18_Witness ==
  /\ Scanned
  /\ \E i, j, k \in DOMAIN ScanErrors :
       /\ ScanErrors[i].type = "attribute"
       /\ ScanErrors[j].type = "text"
       /\ j # k
       /\ ScanErrors[j] = ScanErrors[k]

\* C18 witness: the span scenario.
C18_WitnessSpan ==
  /\ Scanned
  /\ DefaultScan
  /\ document = SpanPage
  /\ ScanErrors = <<TextDefect>>

\* C18 witness: the input scenario.
C18_WitnessInput ==
  /\ Scanned
  /\ DefaultScan
  /\ document = InputPage
  /\ Len(ScanErrors) = 1

\* --------------------------------------------------------------------- C19

\* no text and no attribute value of doc matches a pattern of config
NoMatchingString(doc, config) ==
  \A n \in DOMAIN doc.nodes :
    /\ ~MatchesAPattern(config, doc.nodes[n].data)
    /\ \A k \in DOMAIN doc.nodes[n].attrs :
         ~MatchesAPattern(config, doc.nodes[n].attrs[k].value)

\* the step is the automatic scan of a document without a matching string
CleanScanStep ==
  /\ lastOp' = "checkTranslations"
  /\ scans' # scans
  /\ NoMatchingString(document, Config(AutoOptions))

\* the step is the store task of a scan that found nothing
CleanStoreStep ==
  /\ lastOp' = "put"
  /\ translationResults' # translationResults \/ lastPut' # lastPut
  /\ subject = << >>

\* C19: the scan of a document that holds no pattern-matching string finds
\* nothing and does not fail, its store task is next in the queue, and that
\* task writes a record without defects under the destination.
C19_CleanPageRecorded ==
  [][ /\ CleanScanStep =>
           /\ scans'[Len(scans')].errors = << >>
           /\ hookError' = hookError
           /\ subject' = << >>
           /\ queue' = <<TaskCmd(scans'[Len(scans')].url)>>
      /\ CleanStoreStep =>
           /\ Head(queue).url \in Keys(translationResults')
           /\ MapGet(translationResults', Head(queue).url).errors = << >>
           /\ MapGet(translationResults', Head(queue).url).url = Head(queue).url
    ]_vars

\* C19 witness: the scan of the clean page found nothing and the task has
\* just stored the record of its destination, with no defect.
C19_Witness ==
  /\ lastOp = "put"
  /\ document = CleanPage
  /\ scans # << >>
  /\ scans[Len(scans)].errors = << >>
  /\ scans[Len(scans)].url \in Keys(translationResults)
  /\ MapGet(translationResults, scans[Len(scans)].url).errors = << >>
  /\ MapGet(translationResults, scans[Len(scans)].url).testContext = currentTest


\* --------------------------------------------------------------------- C20

\* C20: the scan of a document without a root element raises no error and
\* yields no defect.
C20_AbsentRootScansEmpty ==
  (Scanned /\ document.body = 0) =>
    /\ manual[1].outcome.threw = "none"
    /\ ScanErrors = << >>

\* ---------------------------------------------------------- C21, C22

\* the outcome of the manual scan
ScanOutcome == manual[1].outcome

\* the scan found a defect: errors.length > 0
DefectsFound == ScanErrors # << >>

\* C21: a manual scan fails the step if and only if failOnError is in effect
\* for the call and the scan found a defect; the failure carries the number
\* of defects; in every other case the call yields the errors of the scan.
C21_FailsIffFailOnErrorAndDefects ==
  Scanned =>
    /\ (ScanOutcome.threw # "none") <=> (ScanConfig.failOnError /\ DefectsFound)
    /\ ScanOutcome.threw # "none" =>
         /\ ScanOutcome.threw = "Error"
         /\ ScanOutcome.count = Cardinality(Reportable(document, ScanConfig))
    /\ ScanOutcome.threw = "none" =>
         subject = ScanErrors /\ Len(ScanErrors) =
                                   Cardinality(Reportable(document, ScanConfig))

\* the options of the call name failOnError, as true or as false
OptedIn == "failOnError" \in DOMAIN ScanOptions /\ ScanOptions.failOnError
OptedOut == "failOnError" \in DOMAIN ScanOptions /\ ~ScanOptions.failOnError

\* C22, as claimed: a scan that finds defects throws only when the caller
\* enabled failOnError on the call; a manual scan without a failOnError
\* option yields its defects.
C22_ThrowsOnlyOnOptIn ==
  (Scanned /\ DefectsFound) =>
    /\ ScanOutcome.threw = "Error" => OptedIn
    /\ "failOnError" \notin DOMAIN ScanOptions =>
         ScanOutcome.threw = "none" /\ subject = ScanErrors

\* C22, amended: failing on defects is the default of a manual call and
\* the caller opts out of it.  A scan that finds defects throws unless the
\* options of the call carry failOnError: false; without a failOnError
\* option it fails the step; with failOnError: false it yields its defects.
C22_ThrowsUnlessOptedOut ==
  (Scanned /\ DefectsFound) =>
    /\ ScanOutcome.threw = "Error" <=> ~OptedOut
    /\ "failOnError" \notin DOMAIN ScanOptions =>
         ScanOutcome.threw = "Error" /\ ScanOutcome.count = Len(ScanErrors)
    /\ OptedOut =>
         /\ ScanOutcome.threw = "none"
         /\ subject = ScanErrors
         /\ ScanErrors # << >>

\* C22 witness: cy.checkTranslations() without options on the span page
\* failed the step with a count of one.
C22_Witness ==
  /\ Scanned
  /\ ScanOptions = << >>
  /\ document = SpanPage
  /\ ScanOutcome.threw = "Error"
  /\ ScanOutcome.count = 1

\* C22 witness: the same page under failOnError: false yielded the defect.
C22_WitnessOptedOut ==
  /\ Scanned
  /\ OptedOut
  /\ document = SpanPage
  /\ ScanOutcome.threw = "none"
  /\ subject = <<TextDefect>>

\* --------------------------------------------------------------------- C23

\* C23: within one document, the defects of two distinct elements never
\* carry the same xpath, be it the id shortcut or the positional path.
C23_PathsDistinguishElements ==
  Scanned =>
    \A c, d \in Reportable(document, ScanConfig) :
      (/\ Rec(document, c) \in Range(ScanErrors)
       /\ Rec(document, d) \in Range(ScanErrors)
       /\ Owner(document, c) # Owner(document, d))
        => Rec(document, c).xpath # Rec(document, d).xpath

\* ---------------------------------------------------------- C25, C26

\* C25: every defect of a scan is of type text or attribute, names the tag
\* of its element, carries a non-empty xpath, and names an attribute exactly
\* when it is of type attribute.
C25_DefectsWellFormed ==
  Scanned =>
    LET errors == ScanErrors
    IN \A i \in DOMAIN errors :
         /\ errors[i].type \in {"text", "attribute"}
         /\ errors[i].element # << >>
         /\ errors[i].xpath # << >>
         /\ ("attribute" \in DOMAIN errors[i]) <=> (errors[i].type = "attribute")
         /\ "attribute" \in DOMAIN errors[i] =>
              errors[i].attribute \in Range(ScanConfig.checkAttributes)

\* C25 witness: a scan reported a text defect and an attribute defect.
C25_Witness ==
  /\ Scanned
  /\ \E i, j \in DOMAIN ScanErrors :
       /\ ScanErrors[i].type = "text"
       /\ "attribute" \notin DOMAIN ScanErrors[i]
       /\ ScanErrors[j].type = "attribute"
       /\ ScanErrors[j].attribute = "placeholder"
       /\ ScanErrors[j].element = <<"I", "N", "P", "U", "T">>

\* C26: the text of every defect, of a text node or of an attribute, is
\* trimmed and is not empty or blank.
C26_ValuesTrimmed ==
  Scanned =>
    \A i \in DOMAIN ScanErrors :
      /\ ScanErrors[i].text = trim(ScanErrors[i].text)
      /\ ~Blank(ScanErrors[i].text)

\* --------------------------------------------------------------------- C27

\* getXPath was called on an element
Located == located # << >> /\ located[1].element # NoNode
LocatedElement == located[1].element

\* e is detached or root-less: the top of its ancestor chain has no parent
InNoDocument(doc, e) == doc.nodes[rootOf(doc, e)].parent = NoNode

\* the number of elements from e up to the top of its ancestor chain
RECURSIVE Depth(_, _)
Depth(doc, n) ==
  IF n \in DOMAIN doc.nodes THEN 1 + Depth(doc, doc.nodes[n].parent) ELSE 0

Slashes(path) == Cardinality({i \in DOMAIN path : path[i] = "/"})

\* C27: getXPath does not throw on an element that is detached or
\* root-less: it ends and returns a path built from the ancestors there
\* are, one part per element from the top of the chain down to the element
\* (or the id shortcut of the element).
C27_LocateNeverThrows ==
  (Located /\ InNoDocument(document, LocatedElement)) =>
    /\ located[1].outcome.threw = "none"
    /\ located[1].outcome.path # << >>
    /\ located[1].outcome.path[1] = "/"
    /\ elementId(document, LocatedElement) = << >> =>
         Slashes(located[1].outcome.path) = Depth(document, LocatedElement)

\* C27 witness: getXPath was called on a span inside a div that is in no
\* document and returned /div/span.
C27_Witness ==
  /\ Located
  /\ InNoDocument(document, LocatedElement)
  /\ rootOf(document, LocatedElement) # LocatedElement
  /\ located[1].outcome.threw = "none"
  /\ located[1].outcome.path = <<"/", "d", "i", "v", "/", "s", "p", "a", "n">>

\* --------------------------------------------------------------------- C28

\* the location of the active document: where the last navigation led
Location == navLog[Len(navLog)].url

\* the step is an automatic scan
HookScanStep == lastOp' = "checkTranslations" /\ scans' # scans

\* C28: a scan is attributed to the destination whose document it scans.
\* When a navigation arrives between the end of the test and the scan, the
\* scan of the new document does not go under the earlier destination, and
\* the new destination is the one scanned.
C28_ScanAttributedToItsDocument ==
  [][HookScanStep => scans'[Len(scans')].url = Location]_vars

\* --------------------------------------------------------------------- C29

ReportPhases == {"summary", "validate", "done"}

\* the snapshot holds the record of every destination put since the store
\* was last cleared, and is what the store holds
SnapshotCoversEveryPut ==
  /\ \A u \in URLs : lastPut[u] # << >> => lastPut[u][1] \in Range(pageResults)
  /\ pageResults = MapValues(translationResults)

RepeatedSignal ==
  /\ Len(navLog') = Len(navLog) + 1
  /\ navLog'[Len(navLog')].url = translationChecker.lastUrl

\* C31: a navigation event whose destination equals lastUrl changes
\* nothing: lastUrl, pendingCheck and visitedUrls are left as they were, no
\* command is enqueued and no scan runs, also when the scan of that
\* destination has already run.
C31_RepeatedSignalChangesNothing ==
  [][RepeatedSignal =>
       /\ translationChecker' = translationChecker
       /\ queue' = queue
       /\ scans' = scans
       /\ translationResults' = translationResults]_vars

\* C31 witness: after the scan of the test's destination has run and its
\* result is stored, the event for that destination arrived once more, and
\* nothing is pending.
C31_Witness ==
  /\ phase = "afterEach"
  /\ lastOp = "urlChanged"
  /\ Len(navLog) >= 2
  /\ navLog[Len(navLog)].at = "afterEach"
  /\ navLog[Len(navLog)].url = navLog[Len(navLog) - 1].url
  /\ translationChecker.lastUrl = navLog[Len(navLog)].url
  /\ ScansOf(currentTest, translationChecker.lastUrl) = 1
  /\ queue = << >>
  /\ ~translationChecker.pendingCheck

\* --------------------------------------------------------------------- C32

\* the step is the function of the afterEach hook finding a check pending
CheckpointStep ==
  /\ phase = "test"
  /\ phase' = "afterEach"
  /\ translationChecker.pendingCheck
  /\ translationChecker.lastUrl # Null

\* the step is the store task of the hook
HookStoreStep == lastOp' = "put" /\ phase = "afterEach"

\* the settle delay of the hook is still to elapse
SettlePending == \E i \in DOMAIN queue : queue[i].cmd = "wait"

\* C32: the checkpoint puts the settle delay in front of the scan and the
\* store write; the scan runs when no settle delay is left to elapse; the
\* store write runs after the scan, with the result the scan produced,
\* under the destination that was pending at the checkpoint and with the
\* title of the current test.
C32_SettleThenScanThenStore ==
  [][ /\ CheckpointStep =>
           queue' = <<WaitCmd(defaultWaitTime),
                      CheckCmd(AutoOptions, translationChecker.lastUrl),
                      TaskCmd(translationChecker.lastUrl)>>
      /\ SettlePending =>
           /\ scans' = scans
           /\ translationResults' = translationResults
      /\ HookScanStep =>
           /\ ~SettlePending
           /\ translationResults' = translationResults
           /\ queue' = <<TaskCmd(BodyNavs[Len(BodyNavs)])>>
      /\ HookStoreStep =>
           /\ ~SettlePending
           /\ scans # << >>
           /\ scans[Len(scans)].test = currentTest
           /\ scans[Len(scans)].url = BodyNavs[Len(BodyNavs)]
           /\ Head(queue).url = BodyNavs[Len(BodyNavs)]
           /\ MapGet(translationResults', Head(queue).url) =
                [url |-> BodyNavs[Len(BodyNavs)],
                 errors |-> scans[Len(scans)].errors,
                 testContext |-> currentTest]
    ]_vars

\* C32 witness: the settle delay elapsed, then the scan ran and found a
\* defect, then the task stored the record of the scan under the test's
\* destination.
C32_Witness ==
  /\ phase = "afterEach"
  /\ lastOp = "put"
  /\ BodyNavs # << >>
  /\ scans # << >>
  /\ scans[Len(scans)].test = currentTest
  /\ scans[Len(scans)].errors # << >>
  /\ BodyNavs[Len(BodyNavs)] \in Keys(translationResults)
  /\ MapGet(translationResults, BodyNavs[Len(BodyNavs)]) =
       [url |-> BodyNavs[Len(BodyNavs)],
        errors |-> scans[Len(scans)].errors,
        testContext |-> currentTest]

\* --------------------------------------------------------------------- C33

\* node a comes before node b in the depth-first pre-order of doc: a is an
\* ancestor of b, or the subtree of an earlier sibling holds a and that of a
\* later sibling holds b
DocBefore(doc, a, b) ==
  /\ a # b
  /\ \/ a \in Chain(doc, b)
     \/ \E x \in Chain(doc, a), y \in Chain(doc, b) :
          /\ doc.nodes[x].parent = doc.nodes[y].parent
          /\ x < y

\* the place of an attribute in config.checkAttributes
AttrIndex(config, a) ==
  CHOOSE k \in DOMAIN config.checkAttributes : config.checkAttributes[k] = a

\* candidate c is met before candidate d by a traversal in document order
\* that looks at the attributes of an element before its child nodes
CandBefore(doc, config, c, d) ==
  IF c[1] = d[1]
    THEN /\ c[2] # d[2]
         /\ AttrIndex(config, c[2]) < AttrIndex(config, d[2])
    ELSE DocBefore(doc, c[1], d[1])

\* C33: the errors of a scan are its defects in depth-first pre-order
\* document order: the attribute defects of an element, in the order of
\* checkAttributes, before any defect of its child nodes, and every defect
\* of the subtree of an earlier sibling before those of a later sibling.
\* Each defect is at the place that the number of defects met before it
\* gives.
C33_DefectsInDocumentOrder ==
  Scanned =>
    LET config == ScanConfig
        errors == ScanErrors
        reportable == Reportable(document, config)
    IN /\ Len(errors) = Cardinality(reportable)
       /\ \A c \in reportable :
            errors[1 + Cardinality({d \in reportable :
                                     CandBefore(document, config, d, c)})]
              = Rec(document, c)

\* C33 witness: the scan of the nested page reported the two attributes of
\* the div in the order of checkAttributes, then the text of the div, then
\* the text of the span inside it, then the text that follows the div.
C33_Witness ==
  /\ Scanned
  /\ document = NestedPage
  /\ DOMAIN ScanOptions = {"failOnError"}
  /\ Len(ScanErrors) = 5
  /\ [i \in 1..5 |-> ScanErrors[i].text[3]] = <<"p", "t", "a", "b", "c">>
  /\ [i \in 1..5 |-> ScanErrors[i].type] =
       <<"attribute", "attribute", "text", "text", "text">>

\* --------------------------------------------------------------------- C34

\* the elements from the top of the ancestor chain of e down to e
RECURSIVE RootDown(_, _)
RootDown(doc, e) ==
  IF e \in DOMAIN doc.nodes
    THEN Append(RootDown(doc, doc.nodes[e].parent), e)
    ELSE << >>

\* the element siblings of e that precede it and carry its tag
EarlierOfTag(doc, e) ==
  {s \in DOMAIN doc.nodes :
     /\ s < e
     /\ doc.nodes[e].parent # NoNode
     /\ doc.nodes[s].parent = doc.nodes[e].parent
     /\ doc.nodes[s].nodeType = "element"
     /\ doc.nodes[s].localName = doc.nodes[e].localName}

\* the segment of e: its tag, followed by its ordinal among the element
\* siblings of its tag unless it is the first of them
Segment(doc, e) ==
  IF EarlierOfTag(doc, e) = {}
    THEN doc.nodes[e].localName
    ELSE doc.nodes[e].localName \o <<"[">>
           \o NumberToString(Cardinality(EarlierOfTag(doc, e)) + 1) \o <<"]">>

\* a slash in front of each segment of the chain of e
SegmentPath(doc, e) ==
  LET chain == RootDown(doc, e)
  IN Flatten([i \in DOMAIN chain |-> <<"/">> \o Segment(doc, chain[i])])

C34_WitnessId ==
  /\ Located
  /\ document.nodes[LocatedElement].parent > 2
  /\ located[1].outcome.path =
       <<"/", "/", "*", "[", "@", "i", "d", "=", "\"", "x", "\"", "]">>

\* C34 witness: getXPath was called on a div that follows a span and got
\* no index.
C34_WitnessFirstOfTag ==
  /\ Located
  /\ \E s \in previousSiblings(document, LocatedElement) :
       isElement(document, s)
  /\ located[1].outcome.path =
       <<"/", "h", "t", "m", "l", "/", "b", "o", "d", "y", "/", "d", "i", "v">>

\* --------------------------------------------------------------------- C35

\* the same document was scanned twice, the second time under more
\* exclude selectors
ScannedTwice == Len(manual) = 2

\* every selector of the list narrow is in the list wide
ListsEvery(wide, narrow) ==
  \A i \in DOMAIN narrow : \E j \in DOMAIN wide :
    wide[j].by = narrow[i].by /\ wide[j].name = narrow[i].name

\* a is b with some of its elements left out
RECURSIVE IsSubsequence(_, _)
IsSubsequence(a, b) ==
  IF a = << >> THEN TRUE
  ELSE IF b = << >> THEN FALSE
  ELSE IF Head(a) = Head(b) THEN IsSubsequence(Tail(a), Tail(b))
  ELSE IsSubsequence(a, Tail(b))

\* C35: adding selectors to excludeSelectors never adds defects: for the
\* same document and an otherwise equal config, the errors of the scan
\* under a superset of the exclude selectors are a subsequence of the
\* errors of the scan under the original selectors.
C35_ExclusionMonotone ==
  ScannedTwice =>
    /\ ListsEvery(Config(manual[2].options).excludeSelectors,
                  Config(manual[1].options).excludeSelectors)
    /\ [Config(manual[2].options) EXCEPT !.excludeSelectors = << >>]
         = [Config(manual[1].options) EXCEPT !.excludeSelectors = << >>]
    /\ IsSubsequence(manual[2].outcome.errors, manual[1].outcome.errors)

\* C35 witness: the second scan, with a selector more, reported fewer
\* defects than the first and still reported one.
C35_Witness ==
  /\ ScannedTwice
  /\ manual[2].outcome.errors # << >>
  /\ Len(manual[2].outcome.errors) < Len(manual[1].outcome.errors)

\* --------------------------------------------------------------------- C36

\* the value of an option in effect: the one the caller supplied, whole,
\* or the default when the caller supplied none
InEffect(name) ==
  IF name \in DOMAIN ScanOptions THEN ScanOptions[name] ELSE defaultConfig[name]

\* what the scan has to go by, option by option
EffectiveConfig ==
  [patterns |-> InEffect("patterns"),
   excludeSelectors |-> InEffect("excludeSelectors"),
   allowedKeys |-> InEffect("allowedKeys"),
   checkAttributes |-> InEffect("checkAttributes")]

\* C36: a scan goes by the defaults with each option the caller supplied
\* replacing the default of the same name wholesale: under a supplied
\* excludeSelectors or patterns list the default entries that are not
\* listed again have no effect, and the options not supplied have their
\* default effect.  The errors are the defects under the options in effect
\* and the scan throws exactly when failOnError in effect is true and there
\* are defects.
C36_OptionsReplaceDefaults ==
  (Scanned /\ document.body # 0) =>
    LET errors == ScanErrors
        reportable == Reportable(document, EffectiveConfig)
    IN /\ Len(errors) = Cardinality(reportable)
       /\ \A c \in reportable : Rec(document, c) \in Range(errors)
       /\ (ScanOutcome.threw = "Error") <=>
            (InEffect("failOnError") /\ errors # << >>)
       /\ ScanOutcome.threw \in {"none", "Error"}

\* C36 witness: a scan under excludeSelectors: ['span'] reported the text
\* of a script element, which the default list excludes, and went by the
\* default patterns.
C36_Witness ==
  /\ Scanned
  /\ document = ScriptPage
  /\ DOMAIN ScanOptions = {"failOnError", "excludeSelectors"}
  /\ Len(ScanErrors) = 1
  /\ ScanErrors[1].element = <<"S", "C", "R", "I", "P", "T">>
  /\ ScanErrors[1].text = KeyText

\* C36 witness: a scan under patterns: ['ok'] reported the text ok alone,
\* no default pattern being in effect, and kept the default exclusions.
C36_WitnessPatterns ==
  /\ Scanned
  /\ document = ScriptPage
  /\ DOMAIN ScanOptions = {"failOnError", "patterns"}
  /\ Len(ScanErrors) = 1
  /\ ScanErrors[1].element = <<"B", "O", "D", "Y">>
  /\ ScanErrors[1].text = <<"o", "k">>

\* --------------------------------------------------------------------- C37

\* the settle delay the setup call was given: 500 when it was given none
SettleDelayPassed ==
  IF "waitTime" \in DOMAIN globalOptions THEN globalOptions.waitTime ELSE 500

\* C37: the settle delay waited before an automatic scan equals the
\* settle-delay value passed to the setup call, for every value passed, and
\* is 500 when none is passed.
C37_SettleDelayAsPassed ==
  \A i \in DOMAIN queue :
    queue[i].cmd = "wait" => queue[i].ms = SettleDelayPassed

====
